---------------------------- MODULE Spec2Model ----------------------------
(***************************************************************************)
(* A model of DataFrameQueryExecutor (src/dataframe_query_executor.py):    *)
(* the table it holds, its constructor and execute_query with the methods  *)
(* it dispatches to.                                                       *)
(*                                                                         *)
(* Numbers.  A numeric cell is a record [t, v, s]: t = "num" with v the    *)
(* value, t = "nan" for a missing value, t = "text" with s the raw text of *)
(* a cell that has not been coerced yet.  Story points are counted in      *)
(* units of 1/256 point (PointScale), so that every sum of story points is *)
(* an exact binary float in the program and an exact integer here.  A      *)
(* value the program rounds to two decimals is held in hundredths.         *)
(* Arithmetic is exact; round() is round-half-to-even as in Python.        *)
(***************************************************************************)
EXTENDS Integers, Sequences, FiniteSets, TLC

VARIABLES
    src,      \* the table the caller passed to the constructor
    df,       \* self.df of the executor
    pc,       \* "new" before __init__ has run, "ready" after
    call,     \* the last execute_query call: [query_type, kwargs]
    result,   \* what that call returned or raised
    ran,      \* the methods that call ran, in order
    analyzer  \* the SprintDataAnalyzer: self.df, the data summary in progress
              \* and the load in progress

vars == <<src, df, pc, call, result, ran, analyzer>>

-----------------------------------------------------------------------------
(* Values *)

PointScale == 2^8

Num(n) == [t |-> "num", v |-> n, s |-> ""]
NaN == [t |-> "nan", v |-> 0, s |-> ""]
Text(x) == [t |-> "text", v |-> 0, s |-> x]
Points(p) == Num(p * PointScale)

IsNum(c) == c.t = "num"

None == "None"

\* Python truthiness of an optional string argument: None and '' are falsy.
Truthy(x) == x \notin {None, ""}

\* kwargs.get(k, default) / a parameter with a default value
Get(kw, k, default) == IF k \in DOMAIN kw THEN kw[k] ELSE default

Ok(v) == [status |-> "ok", error |-> "", value |-> v]
Raise(e) == [status |-> "error", error |-> e, value |-> 0]

RECURSIVE Gcd(_, _)
Gcd(a, b) == IF b = 0 THEN a ELSE Gcd(b, a % b)

\* round-half-to-even of n/d to an integer (d > 0)
RoundHalfEven(n, d) ==
    LET q == n \div d
        r == n % d
    IN  IF 2 * r < d THEN q
        ELSE IF 2 * r > d THEN q + 1
        ELSE IF q % 2 = 0 THEN q ELSE q + 1

\* round(n/d, 2), in hundredths
Round2(n, d) == RoundHalfEven(100 * n, d)

Max(a, b) == IF a >= b THEN a ELSE b
Min(a, b) == IF a <= b THEN a ELSE b

-----------------------------------------------------------------------------
(* Tables: [columns |-> set of column names, rows |-> sequence of rows],   *)
(* a row a function from the column names to cells.                        *)

AllColumns == {"Sprint_ID", "Status", "Type", "Priority", "Assignee", "Story_Points"}

MkRow(sp, st, ty, pr, as, pts) ==
    [Sprint_ID |-> sp, Status |-> st, Type |-> ty, Priority |-> pr,
     Assignee |-> as, Story_Points |-> pts]

MkTable(cols, rows) == [columns |-> cols, rows |-> rows]

EmptyFrame == MkTable({}, <<>>)

Len0(t) == Len(t.rows)

\* the rows of a table, as a set
Rows(t) == {t.rows[i] : i \in 1..Len(t.rows)}

\* df[mask]: the rows that the mask selects, in the original order, all columns
\* kept; the mask is held as the set of rows it selects
Where(t, mask) == MkTable(t.columns, SelectSeq(t.rows, LAMBDA r : r \in mask))

\* Series.sum(): the sum of the non-null values, 0 for an empty or all-null column
RECURSIVE SumCells(_, _)
SumCells(rows, col) ==
    IF rows = <<>> THEN 0
    ELSE (IF IsNum(Head(rows)[col]) THEN Head(rows)[col].v ELSE 0)
         + SumCells(Tail(rows), col)

ColumnSum(t, col) == SumCells(t.rows, col)

\* Series.count(): the number of non-null values
RECURSIVE CountCells(_, _)
CountCells(rows, col) ==
    IF rows = <<>> THEN 0
    ELSE (IF IsNum(Head(rows)[col]) THEN 1 ELSE 0) + CountCells(Tail(rows), col)

\* the distinct values of a column, as a set
Distinct(t, col) == {t.rows[i][col] : i \in 1..Len(t.rows)}

-----------------------------------------------------------------------------
(* The constructor *)

\* pd.to_numeric(errors='coerce') on one cell: a number stays, text that is a
\* decimal literal becomes its value, anything else becomes NaN
DecimalLiteral == [x \in {"3"} |-> 3]

ToNumeric(c) ==
    IF c.t = "text"
    THEN IF c.s \in DOMAIN DecimalLiteral THEN Points(DecimalLiteral[c.s]) ELSE NaN
    ELSE c

NumericColumns == {"Story_Points", "Cycle_Time_Days", "Dev_Time_Hours", "QA_Time_Hours",
                   "Estimated_Hours", "Team_Capacity_Hours"}

\* pd.to_datetime(errors='coerce') on one cell: a date is held as Num(day);
\* text that is a date becomes that date, anything else NaT
DateLiteral == [x \in {"2024-01-02"} |-> 2]

ToDatetime(c) ==
    IF c.t = "text"
    THEN IF c.s \in DOMAIN DateLiteral THEN Num(DateLiteral[c.s]) ELSE NaN
    ELSE c

DateColumns == {"Created_Date", "Started_Date", "Completed_Date", "Sprint_Start", "Sprint_End"}

\* _ensure_data_types: every date and numeric column the table has is coerced
EnsureDataTypes(t) ==
    MkTable(t.columns,
            [i \in 1..Len(t.rows) |->
                [c \in DOMAIN t.rows[i] |->
                    IF c \in DateColumns /\ c \in t.columns THEN ToDatetime(t.rows[i][c])
                    ELSE IF c \in NumericColumns /\ c \in t.columns
                    THEN ToNumeric(t.rows[i][c])
                    ELSE t.rows[i][c]]])

\* __init__: self.df is a copy of the caller's table, coerced in place
InitExecutor(data) ==
    [caller |-> data, self |-> EnsureDataTypes(data)]

-----------------------------------------------------------------------------
(* _filter_data.  conditions is the dict in insertion order: a sequence of *)
(* [column, kind, operator, value] with kind "scalar" (one value), "list"   *)
(* (a list of values) or "dict" (operator and one value); value is the set  *)
(* of the values, each held as a cell record.  Order comparisons are        *)
(* modelled on numeric columns; a string column is compared by == and !=    *)
(* only.                                                                    *)

\* a value of a column as a cell record, and back
Lit(col, v) == IF col \in NumericColumns \cup DateColumns THEN v ELSE Text(v)
Raw(col, lit) == IF col \in NumericColumns \cup DateColumns THEN lit ELSE lit.s

Scalar(col, v) ==
    [column |-> col, kind |-> "scalar", operator |-> "==", value |-> {Lit(col, v)}]
IsIn(col, vs) ==
    [column |-> col, kind |-> "list", operator |-> "==", value |-> {Lit(col, v) : v \in vs}]
Compare(col, op, v) ==
    [column |-> col, kind |-> "dict", operator |-> op, value |-> {Lit(col, v)}]

\* the one value of a scalar or dict condition
ValueOf(cond) == Raw(cond.column, CHOOSE lit \in cond.value : TRUE)

\* a missing value of a string column (NaN in an object column)
NullStr == "NaN"

\* cell == val as pandas evaluates it: NaN equals nothing
CellEq(col, cell, val) ==
    IF col \in NumericColumns THEN IsNum(cell) /\ IsNum(val) /\ cell.v = val.v
    ELSE cell = val /\ cell # NullStr

\* cell <op> val for the comparison operators; any comparison with NaN is
\* False, except != which is True
CellCmp(col, op, cell, val) ==
    IF op = "!=" THEN ~CellEq(col, cell, val)
    ELSE IF op \in {">", "<", ">=", "<="}
    THEN /\ col \in NumericColumns
         /\ IsNum(cell) /\ IsNum(val)
         /\ CASE op = ">" -> cell.v > val.v
              [] op = "<" -> cell.v < val.v
              [] op = ">=" -> cell.v >= val.v
              [] op = "<=" -> cell.v <= val.v
    ELSE CellEq(col, cell, val)

\* an iteration that keeps no row when the table lacks the column
ApplyCondition_MutUnknownEmpties(t, cond) ==
    IF cond.column \notin t.columns THEN MkTable(t.columns, <<>>)
    ELSE IF cond.kind = "list"
    THEN Where(t, {r \in Rows(t) : Lit(cond.column, r[cond.column]) \in cond.value})
    ELSE Where(t, {r \in Rows(t) :
                      CellCmp(cond.column, cond.operator, r[cond.column], ValueOf(cond))})

\* one iteration of the loop of _filter_data
ApplyCondition(t, cond) ==
    IF cond.column \notin t.columns THEN t
    ELSE IF cond.kind = "list"
    THEN Where(t, {r \in Rows(t) : Lit(cond.column, r[cond.column]) \in cond.value})
    ELSE IF cond.kind = "dict"
    THEN Where(t, {r \in Rows(t) :
                      CellCmp(cond.column, cond.operator, r[cond.column], ValueOf(cond))})
    ELSE Where(t, {r \in Rows(t) : CellEq(cond.column, r[cond.column], ValueOf(cond))})

\* _filter_data with every condition applied to self.df, not to the rows kept
\* so far: the last condition on a known column decides
RECURSIVE _filter_data_MutLastWins(_, _)
_filter_data_MutLastWins(self, conditions) ==
    IF conditions = <<>> THEN self
    ELSE LET last == conditions[Len(conditions)]
         IN  IF last.column \in self.columns THEN ApplyCondition(self, last)
             ELSE _filter_data_MutLastWins(self, SubSeq(conditions, 1, Len(conditions) - 1))

RECURSIVE FilterLoop(_, _)
FilterLoop(t, conditions) ==
    IF conditions = <<>> THEN t
    ELSE FilterLoop(ApplyCondition(t, Head(conditions)), Tail(conditions))

\* _filter_data: result_df = self.df.copy(), narrowed by every condition
_filter_data(self, conditions) == FilterLoop(self, conditions)

\* SprintDataAnalyzer.get_filtered_data(filters) on the analyzer's table: the
\* same loop with list and scalar values only
RECURSIVE get_filtered_data(_, _)
get_filtered_data(self, filters) ==
    IF filters = <<>> THEN self
    ELSE LET key == Head(filters).column
             filtered_df ==
                IF key \notin self.columns THEN self
                ELSE IF Head(filters).kind = "list"
                THEN Where(self, {r \in Rows(self) : Lit(key, r[key]) \in Head(filters).value})
                ELSE Where(self, {r \in Rows(self) : CellEq(key, r[key], ValueOf(Head(filters)))})
         IN  get_filtered_data(filtered_df, Tail(filters))

\* df = self._filter_data({'Sprint_ID': sprint_id}) if sprint_id else self.df
SprintPartition(self, sprint_id) ==
    IF Truthy(sprint_id) THEN _filter_data(self, <<Scalar("Sprint_ID", sprint_id)>>)
    ELSE self

\* df[df['Status'] == 'Done']
DoneRows(t) == Where(t, {r \in Rows(t) : r["Status"] = "Done"})

-----------------------------------------------------------------------------
(* The metric calculators.  params holds the keyword arguments the caller  *)
(* gave; a parameter it does not give takes its default.                   *)

\* round((completed / total * 100) if total > 0 else 0, 2), in hundredths
RatePercent(completed, total) ==
    IF total > 0 THEN Round2(100 * completed, total) ELSE 0

\* the rate of completed work to the work that remains, not to all the work
_calc_completion_rate_MutRemaining(self, params) ==
    LET t == SprintPartition(self, Get(params, "sprint_id", None))
        open == Where(t, {r \in Rows(t) : r["Status"] # "Done"})
    IN  IF Get(params, "by", "tickets") = "tickets"
        THEN RatePercent(Len0(DoneRows(t)), Len0(open))
        ELSE RatePercent(ColumnSum(DoneRows(t), "Story_Points"),
                         ColumnSum(open, "Story_Points"))

\* the rate by tickets, whatever the mode asked for
_calc_completion_rate_MutTickets(self, params) ==
    LET t == SprintPartition(self, Get(params, "sprint_id", None))
    IN  RatePercent(Len0(DoneRows(t)), Len0(t))

\* _calc_completion_rate(sprint_id=None, by='tickets'), in hundredths of a percent
_calc_completion_rate(self, params) ==
    LET t == SprintPartition(self, Get(params, "sprint_id", None))
    IN  IF Get(params, "by", "tickets") = "tickets"
        THEN RatePercent(Len0(DoneRows(t)), Len0(t))
        ELSE RatePercent(ColumnSum(DoneRows(t), "Story_Points"),
                         ColumnSum(t, "Story_Points"))

\* velocity over every row of the partition, whatever its status
_calc_velocity_MutAllRows(self, params) ==
    LET t == SprintPartition(self, Get(params, "sprint_id", None))
    IN  Round2(ColumnSum(t, "Story_Points"), PointScale)

\* round(float(completed_points), 2), in hundredths of a point
_calc_velocity(self, params) ==
    LET t == SprintPartition(self, Get(params, "sprint_id", None))
    IN  Round2(ColumnSum(DoneRows(t), "Story_Points"), PointScale)

\* the score with the To Do deduction taken whatever the To Do ratio is, so
\* that a ratio under 30 adds to the score
HealthScoreRaw_MutTodoAlways(t) ==
    LET total == ColumnSum(t, "Story_Points")
        completed == ColumnSum(DoneRows(t), "Story_Points")
        crn == IF total > 0 THEN 100 * completed ELSE 0
        crd == IF total > 0 THEN total ELSE 1
        critical_bugs ==
            Len0(Where(t, {r \in Rows(t) : r["Type"] = "Bug" /\ r["Priority"] = "Critical"}))
        high_priority_incomplete ==
            Len0(Where(t, {r \in Rows(t) : r["Priority"] = "High" /\ r["Status"] # "Done"}))
        todo_count == Len0(Where(t, {r \in Rows(t) : r["Status"] = "To Do"}))
        total_count == Len0(t)
        trn == IF total_count > 0 THEN 100 * todo_count ELSE 0
        trd == IF total_count > 0 THEN total_count ELSE 1
        d1n == Max(0, 70 * crd - crn)
        d4n == trn - 30 * trd
    IN  [num |-> 200 * crd * trd - d1n * trd
                 - (critical_bugs * 10 + high_priority_incomplete * 5) * 2 * crd * trd
                 - d4n * crd,
         den |-> 2 * crd * trd]

\* the score before the final clamp, as the fraction num/den:
\*   100 - max(0, (70 - completion_rate) * 0.5) - critical_bugs * 10
\*       - high_priority_incomplete * 5 - ((todo_ratio - 30) * 0.5 if todo_ratio > 30)
\* with completion_rate = crn/crd and todo_ratio = trn/trd
HealthScoreRaw(t) ==
    LET total == ColumnSum(t, "Story_Points")
        completed == ColumnSum(DoneRows(t), "Story_Points")
        crn == IF total > 0 THEN 100 * completed ELSE 0
        crd == IF total > 0 THEN total ELSE 1
        critical_bugs ==
            Len0(Where(t, {r \in Rows(t) : r["Type"] = "Bug" /\ r["Priority"] = "Critical"}))
        high_priority_incomplete ==
            Len0(Where(t, {r \in Rows(t) : r["Priority"] = "High" /\ r["Status"] # "Done"}))
        todo_count == Len0(Where(t, {r \in Rows(t) : r["Status"] = "To Do"}))
        total_count == Len0(t)
        trn == IF total_count > 0 THEN 100 * todo_count ELSE 0
        trd == IF total_count > 0 THEN total_count ELSE 1
        d1n == Max(0, 70 * crd - crn)
        d4n == IF trn > 30 * trd THEN trn - 30 * trd ELSE 0
    IN  [num |-> 200 * crd * trd - d1n * trd
                 - (critical_bugs * 10 + high_priority_incomplete * 5) * 2 * crd * trd
                 - d4n * crd,
         den |-> 2 * crd * trd]

\* the score returned without the clamp at 0
_calculate_health_score_MutNoFloor(t) ==
    LET s == HealthScoreRaw(t) IN Min(10000, Round2(s.num, s.den))

\* max(0, min(100, round(score, 2))), in hundredths
_calculate_health_score(t) ==
    LET s == HealthScoreRaw(t) IN Max(0, Min(10000, Round2(s.num, s.den)))

\* _calc_sprint_health; velocity, work_in_progress_points and todo_points are
\* float(sum), not rounded: they are held in units of 1/256 point
_calc_sprint_health(self, params) ==
    LET sprint_id == params["sprint_id"]
        t == _filter_data(self, <<Scalar("Sprint_ID", sprint_id)>>)
        total_points == ColumnSum(t, "Story_Points")
        completed_points == ColumnSum(DoneRows(t), "Story_Points")
    IN  [sprint_id |-> sprint_id,
         completion_rate_points |-> RatePercent(completed_points, total_points),
         completion_rate_tickets |-> RatePercent(Len0(DoneRows(t)), Len0(t)),
         velocity |-> completed_points,
         work_in_progress_points |->
             ColumnSum(Where(t, {r \in Rows(t) : r["Status"] = "In Progress"}), "Story_Points"),
         todo_points |->
             ColumnSum(Where(t, {r \in Rows(t) : r["Status"] = "To Do"}), "Story_Points"),
         bugs_count |-> Len0(Where(t, {r \in Rows(t) : r["Type"] = "Bug"})),
         critical_bugs |->
             Len0(Where(t, {r \in Rows(t) : r["Type"] = "Bug" /\ r["Priority"] = "Critical"})),
         high_priority_incomplete |->
             Len0(Where(t, {r \in Rows(t) : r["Priority"] = "High" /\ r["Status"] # "Done"})),
         health_score |-> _calculate_health_score(t)]

-----------------------------------------------------------------------------
(* Exact arithmetic on naturals too large for a machine integer: a number  *)
(* is its base-10^4 digits, least significant first.  Used for square      *)
(* roots (np.std).                                                         *)

BigBase == 10^4

RECURSIVE BigOf(_)
BigOf(n) == IF n = 0 THEN <<>> ELSE <<n % BigBase>> \o BigOf(n \div BigBase)

RECURSIVE BigAdd(_, _, _)
BigAdd(x, y, carry) ==
    IF x = <<>> /\ y = <<>> THEN BigOf(carry)
    ELSE LET a == IF x = <<>> THEN 0 ELSE Head(x)
             b == IF y = <<>> THEN 0 ELSE Head(y)
             sum == a + b + carry
         IN  <<sum % BigBase>>
             \o BigAdd(IF x = <<>> THEN x ELSE Tail(x),
                       IF y = <<>> THEN y ELSE Tail(y), sum \div BigBase)

\* x times one digit d
RECURSIVE BigMulDigit(_, _, _)
BigMulDigit(x, d, carry) ==
    IF x = <<>> THEN BigOf(carry)
    ELSE LET prod == Head(x) * d + carry
         IN  <<prod % BigBase>> \o BigMulDigit(Tail(x), d, prod \div BigBase)

RECURSIVE BigMul(_, _)
BigMul(x, y) ==
    IF y = <<>> THEN <<>>
    ELSE BigAdd(BigMulDigit(x, Head(y), 0), <<0>> \o BigMul(x, Tail(y)), 0)

\* -1, 0 or 1 as x <, = or > y
RECURSIVE BigCmp(_, _)
BigCmp(x, y) ==
    IF x = <<>> /\ y = <<>> THEN 0
    ELSE LET a == IF x = <<>> THEN 0 ELSE Head(x)
             b == IF y = <<>> THEN 0 ELSE Head(y)
             c == BigCmp(IF x = <<>> THEN x ELSE Tail(x),
                         IF y = <<>> THEN y ELSE Tail(y))
         IN  IF c # 0 THEN c ELSE IF a < b THEN 0 - 1 ELSE IF a > b THEN 1 ELSE 0

BigSquare(n) == BigMul(BigOf(n), BigOf(n))

\* (2*a)^2 * D
SqrtBound(a, D) == BigMul(BigSquare(2 * a), BigOf(D))

\* the sign of h*b - 2*a*sqrt(D/k), for naturals h and b, k > 0, where
\* rhs = SqrtBound(a, D)
HalfCmp(h, b, k, rhs) ==
    BigCmp(IF k = 1 THEN BigSquare(h * b) ELSE BigMul(BigSquare(h * b), BigOf(k)), rhs)

\* the largest h in lo..hi with h*b <= 2*a*sqrt(D/k), given that lo is one
RECURSIVE HalfFloor(_, _, _, _, _)
HalfFloor(lo, hi, b, k, rhs) ==
    IF lo = hi THEN lo
    ELSE LET mid == (lo + hi + 1) \div 2
         IN  IF HalfCmp(mid, b, k, rhs) <= 0 THEN HalfFloor(mid, hi, b, k, rhs)
             ELSE HalfFloor(lo, mid - 1, b, k, rhs)

\* min(cap, a*sqrt(D/k)/b) rounded half-to-even to an integer
RoundSqrtRatio(a, D, b, k, cap) ==
    LET rhs == SqrtBound(a, D)
        h == IF HalfCmp(2 * cap, b, k, rhs) <= 0 THEN 2 * cap
             ELSE HalfFloor(0, 2 * cap, b, k, rhs)
        m == h \div 2
    IN  IF h % 2 = 0 THEN m
        ELSE IF HalfCmp(h, b, k, rhs) = 0 THEN (IF m % 2 = 0 THEN m ELSE m + 1)
        ELSE m + 1

-----------------------------------------------------------------------------
(* work_distribution *)

\* df.groupby(col): the keys, each a distinct non-null value of the column
GroupKeys(t, col) == Distinct(t, col) \ {NullStr}

\* df.groupby('Assignee')['Story_Points'].sum().to_dict()
ByAssignee(t) ==
    [a \in GroupKeys(t, "Assignee") |->
        ColumnSum(Where(t, {r \in Rows(t) : r["Assignee"] = a}), "Story_Points")]

RECURSIVE SumOver(_, _)
SumOver(f, S) ==
    IF S = {} THEN 0
    ELSE LET x == CHOOSE y \in S : TRUE IN f[x] + SumOver(f, S \ {x})

\* n * sum(x^2) - (sum x)^2 = n^2 * (population variance) of the values of f
Dispersion(f) ==
    LET n == Cardinality(DOMAIN f)
        sq == [a \in DOMAIN f |-> f[a] * f[a]]
        total == SumOver(f, DOMAIN f)
    IN  n * SumOver(sq, DOMAIN f) - total * total

\* std_dev / mean_points * 100 with no cap at 100
BalanceScore_MutNoCap(by_assignee) ==
    LET n == Cardinality(DOMAIN by_assignee)
        total == SumOver(by_assignee, DOMAIN by_assignee)
        D == IF n > 1 THEN Dispersion(by_assignee) ELSE 0
    IN  IF total > 0
        THEN 10000 - RoundSqrtRatio(10000, D, total, 1, 10000 * n)
        ELSE 10000

\* round(100 - min(100, (std_dev / mean_points * 100 if mean_points > 0 else 0)), 2)
\* in hundredths, where std_dev = np.std(points_list) if len(points_list) > 1 else 0
\* and mean_points = np.mean(points_list) if len(points_list) > 0 else 0:
\* std_dev / mean_points = sqrt(Dispersion) / total
BalanceScore(by_assignee) ==
    LET n == Cardinality(DOMAIN by_assignee)
        total == SumOver(by_assignee, DOMAIN by_assignee)
        D == IF n > 1 THEN Dispersion(by_assignee) ELSE 0
    IN  IF total > 0
        THEN 10000 - RoundSqrtRatio(10000, D, total, 1, 10000)
        ELSE 10000

_calc_work_distribution(self, params) ==
    LET t == SprintPartition(self, Get(params, "sprint_id", None))
        by_assignee == ByAssignee(t)
        n == Cardinality(DOMAIN by_assignee)
        total_points == SumOver(by_assignee, DOMAIN by_assignee)
        D == IF n > 1 THEN Dispersion(by_assignee) ELSE 0
    IN  [distribution |->
            [a \in DOMAIN by_assignee |->
                [story_points |-> by_assignee[a],
                 percentage |-> RatePercent(by_assignee[a], total_points)]],
         balance_score |-> BalanceScore(by_assignee),
         \* round(float(std_dev), 2), in hundredths of a point
         std_deviation |->
            IF n > 1 THEN RoundSqrtRatio(100, D, PointScale * n, 1, 100 * total_points) ELSE 0,
         \* round(float(mean_points), 2), in hundredths of a point
         mean_points_per_person |->
            IF n > 0 THEN Round2(total_points, PointScale * n) ELSE 0]

-----------------------------------------------------------------------------
(* The other calculators of the catalogue *)

\* Series.mean() of a numeric column, as the fraction num/den in units of
\* 1/256; den = 0 is NaN (no non-null value)
ColumnMean(t, col) ==
    [num |-> SumCells(t.rows, col), den |-> CountCells(t.rows, col)]

\* round(float(mean), 2) in hundredths, NaN when the mean is NaN
RoundMean(m) == IF m.den = 0 THEN NaN ELSE Num(Round2(m.num, PointScale * m.den))

\* _calc_capacity_utilization: None when the capacity column is absent, the
\* sprint has no rows, or the first row's capacity is null or 0
_calc_capacity_utilization(self, params) ==
    LET t == _filter_data(self, <<Scalar("Sprint_ID", params["sprint_id"])>>)
    IN  IF "Team_Capacity_Hours" \notin t.columns \/ Len0(t) = 0 THEN Ok(None)
        ELSE LET capacity == t.rows[1]["Team_Capacity_Hours"]
             IN  IF ~IsNum(capacity) \/ capacity.v = 0 THEN Ok(None)
                 ELSE IF "Dev_Time_Hours" \notin t.columns THEN Raise("KeyError")
                 ELSE Ok(Round2(100 * (ColumnSum(t, "Dev_Time_Hours")
                                       + (IF "QA_Time_Hours" \in t.columns
                                          THEN ColumnSum(t, "QA_Time_Hours") ELSE 0)),
                                capacity.v))

\* the average cycle time over the tickets of every type
_calc_avg_cycle_time_MutAnyType(self, params) ==
    LET status == Get(params, "status", "Done")
        t == IF Truthy(status) THEN Where(self, {r \in Rows(self) : r["Status"] = status})
             ELSE self
    IN  IF "Cycle_Time_Days" \notin t.columns \/ Len0(t) = 0 THEN 0
        ELSE LET avg_time == RoundMean(ColumnMean(t, "Cycle_Time_Days"))
             IN  IF IsNum(avg_time) THEN avg_time.v ELSE 0

\* _calc_avg_cycle_time(status='Done', ticket_type=None), in hundredths of a day
_calc_avg_cycle_time(self, params) ==
    LET status == Get(params, "status", "Done")
        ticket_type == Get(params, "ticket_type", None)
        byStatus == IF Truthy(status) THEN Where(self, {r \in Rows(self) : r["Status"] = status})
                    ELSE self
        t == IF Truthy(ticket_type)
             THEN Where(byStatus, {r \in Rows(byStatus) : r["Type"] = ticket_type})
             ELSE byStatus
    IN  IF "Cycle_Time_Days" \notin t.columns \/ Len0(t) = 0 THEN 0
        ELSE LET avg_time == RoundMean(ColumnMean(t, "Cycle_Time_Days"))
             IN  IF IsNum(avg_time) THEN avg_time.v ELSE 0

\* _calc_bug_resolution_rate, in hundredths
_calc_bug_resolution_rate(self, params) ==
    LET bugs == Where(self, {r \in Rows(self) : r["Type"] = "Bug"})
    IN  IF Len0(bugs) = 0 THEN 0
        ELSE Round2(100 * Len0(DoneRows(bugs)), Len0(bugs))

\* Series.unique(): the distinct values in order of first appearance, a missing
\* value included
RECURSIVE UniqueSeq(_, _, _)
UniqueSeq(rows, col, seen) ==
    IF rows = <<>> THEN <<>>
    ELSE IF Head(rows)[col] \in seen THEN UniqueSeq(Tail(rows), col, seen)
    ELSE <<Head(rows)[col]>> \o UniqueSeq(Tail(rows), col, seen \cup {Head(rows)[col]})

RECURSIVE SumField(_, _)
SumField(seq, field) ==
    IF seq = <<>> THEN 0 ELSE Head(seq)[field] + SumField(Tail(seq), field)

\* _calc_team_productivity: the rows of a missing assignee match no
\* df['Assignee'] == assignee, so that member has no tickets
_calc_team_productivity(self, params) ==
    LET t == SprintPartition(self, Get(params, "sprint_id", None))
        members == UniqueSeq(t.rows, "Assignee", {})
        team_metrics ==
            [i \in 1..Len(members) |->
                LET assignee_df ==
                        Where(t, {r \in Rows(t) : members[i] # NullStr /\ r["Assignee"] = members[i]})
                IN  [assignee |-> members[i],
                     completed_points |-> ColumnSum(DoneRows(assignee_df), "Story_Points"),
                     total_tickets |-> Len0(assignee_df),
                     completed_tickets |-> Len0(DoneRows(assignee_df)),
                     completion_rate |->
                        RatePercent(Len0(DoneRows(assignee_df)), Len0(assignee_df))]]
    IN  [team_members |-> team_metrics,
         total_team_points |-> SumField(team_metrics, "completed_points"),
         avg_points_per_person |->
            IF Len(team_metrics) > 0
            THEN Round2(SumField(team_metrics, "completed_points"),
                        PointScale * Len(team_metrics))
            ELSE 0]

\* Series.value_counts().to_dict(): the count of each non-null value
ValueCounts(t, col) ==
    [x \in GroupKeys(t, col) |-> Len0(Where(t, {r \in Rows(t) : r[col] = x}))]

\* _calc_quality_metrics
_calc_quality_metrics(self, params) ==
    LET t == SprintPartition(self, Get(params, "sprint_id", None))
        bugs == Where(t, {r \in Rows(t) : r["Type"] = "Bug"})
        stories == Where(t, {r \in Rows(t) : r["Type"] = "Story"})
        closed_bugs == DoneRows(bugs)
        avg_bug_fix_time ==
            IF "Cycle_Time_Days" \in closed_bugs.columns /\ Len0(closed_bugs) > 0
            THEN RoundMean(ColumnMean(closed_bugs, "Cycle_Time_Days"))
            ELSE Num(0)
    IN  [total_bugs |-> Len0(bugs),
         bug_to_story_ratio |-> RatePercent(Len0(bugs), Len0(stories)),
         bug_resolution_rate |-> RatePercent(Len0(closed_bugs), Len0(bugs)),
         severity_distribution |->
            IF "Severity" \in bugs.columns THEN ValueCounts(bugs, "Severity") ELSE <<>>,
         avg_bug_fix_time_days |-> IF IsNum(avg_bug_fix_time) THEN avg_bug_fix_time.v ELSE 0]

\* a before b in sort_values(col): ascending, missing values last
DateBefore(a, b) == IsNum(a) /\ (~IsNum(b) \/ a.v < b.v)

RECURSIVE InsertByDate(_, _, _)
InsertByDate(sorted, row, col) ==
    IF sorted = <<>> THEN <<row>>
    ELSE IF DateBefore(row[col], Head(sorted)[col]) THEN <<row>> \o sorted
    ELSE <<Head(sorted)>> \o InsertByDate(Tail(sorted), row, col)

\* df.sort_values(col); rows with equal dates keep their order
RECURSIVE SortByDate(_, _)
SortByDate(rows, col) ==
    IF rows = <<>> THEN <<>>
    ELSE InsertByDate(SortByDate(Tail(rows), col), Head(rows), col)

\* remaining -= row['Story_Points']: NaN once a NaN has been subtracted
Minus(a, b) == IF IsNum(a) /\ IsNum(b) THEN Num(a.v - b.v) ELSE NaN

\* the loop of _calc_burndown_data over the Done rows in date order
RECURSIVE BurnLoop(_, _, _)
BurnLoop(rows, remaining, total_points) ==
    IF rows = <<>> THEN <<>>
    ELSE IF IsNum(Head(rows)["Completed_Date"])
    THEN LET left == Minus(remaining, Head(rows)["Story_Points"])
         IN  <<[date |-> Head(rows)["Completed_Date"].v,
                remaining_points |-> left,
                completed_points |-> Minus(total_points, left)]>>
             \o BurnLoop(Tail(rows), left, total_points)
    ELSE BurnLoop(Tail(rows), remaining, total_points)

\* _calc_burndown_data walking the Done rows in table order, not by date
_calc_burndown_data_MutNoSort(self, params) ==
    LET t == _filter_data(self, <<Scalar("Sprint_ID", params["sprint_id"])>>)
    IN  IF "Completed_Date" \notin t.columns \/ Len0(t) = 0 THEN Ok(<<>>)
        ELSE IF {"Sprint_Start", "Sprint_End"} \subseteq t.columns
        THEN IF ~IsNum(t.rows[1]["Sprint_Start"]) \/ ~IsNum(t.rows[1]["Sprint_End"])
             THEN Ok(<<>>)
             ELSE LET total_points == Num(ColumnSum(t, "Story_Points"))
                  IN  Ok(BurnLoop(DoneRows(t).rows, total_points, total_points))
        ELSE Raise("KeyError")

\* _calc_burndown_data
_calc_burndown_data(self, params) ==
    LET t == _filter_data(self, <<Scalar("Sprint_ID", params["sprint_id"])>>)
    IN  IF "Completed_Date" \notin t.columns \/ Len0(t) = 0 THEN Ok(<<>>)
        ELSE IF {"Sprint_Start", "Sprint_End"} \subseteq t.columns
        THEN IF ~IsNum(t.rows[1]["Sprint_Start"]) \/ ~IsNum(t.rows[1]["Sprint_End"])
             THEN Ok(<<>>)
             ELSE LET total_points == Num(ColumnSum(t, "Story_Points"))
                  IN  Ok(BurnLoop(SortByDate(DoneRows(t).rows, "Completed_Date"),
                                  total_points, total_points))
        ELSE Raise("KeyError")

-----------------------------------------------------------------------------
(* compare_sprints, trend_analysis, team_comparison *)

\* Series.nunique(): the number of distinct non-null values
NUnique(t, col) == Cardinality(GroupKeys(t, col))

\* the value of 'avg_cycle_time' in the three comparisons
AvgCycleTime(t) ==
    LET done == DoneRows(t)
    IN  IF "Cycle_Time_Days" \in done.columns /\ Len0(done) > 0
        THEN RoundMean(ColumnMean(done, "Cycle_Time_Days"))
        ELSE Num(0)

\* the chain of if/elif over one metric of _compare_sprints: the row with the
\* metric's column set; a metric that matches no branch sets nothing
CompareMetric(sprint_metrics, sprint_df, metric) ==
    IF metric = "velocity"
    THEN ("Velocity" :> ColumnSum(DoneRows(sprint_df), "Story_Points")) @@ sprint_metrics
    ELSE IF metric = "completion_rate"
    THEN ("Completion_Rate" :> RatePercent(ColumnSum(DoneRows(sprint_df), "Story_Points"),
                                           ColumnSum(sprint_df, "Story_Points")))
         @@ sprint_metrics
    ELSE IF metric = "bug_count"
    THEN ("Bugs" :> Len0(Where(sprint_df, {r \in Rows(sprint_df) : r["Type"] = "Bug"}))) @@ sprint_metrics
    ELSE IF metric = "team_size"
    THEN ("Team_Size" :> NUnique(sprint_df, "Assignee")) @@ sprint_metrics
    ELSE IF metric = "avg_cycle_time"
    THEN ("Avg_Cycle_Time" :> AvgCycleTime(sprint_df)) @@ sprint_metrics
    ELSE sprint_metrics

RECURSIVE CompareMetrics(_, _, _)
CompareMetrics(sprint_metrics, sprint_df, metrics) ==
    IF metrics = <<>> THEN sprint_metrics
    ELSE CompareMetrics(CompareMetric(sprint_metrics, sprint_df, Head(metrics)),
                        sprint_df, Tail(metrics))

\* _compare_sprints with a sprint that has no rows reported as a row of its own
RECURSIVE _compare_sprints_MutNoSkip(_, _, _)
_compare_sprints_MutNoSkip(self, sprint_ids, metrics) ==
    IF sprint_ids = <<>> THEN <<>>
    ELSE LET sprint_df == _filter_data(self, <<Scalar("Sprint_ID", Head(sprint_ids))>>)
         IN  <<CompareMetrics("Sprint_ID" :> Head(sprint_ids), sprint_df, metrics)>>
             \o _compare_sprints_MutNoSkip(self, Tail(sprint_ids), metrics)

\* _compare_sprints: comparison_data, one row per requested sprint that has rows
RECURSIVE _compare_sprints(_, _, _)
_compare_sprints(self, sprint_ids, metrics) ==
    IF sprint_ids = <<>> THEN <<>>
    ELSE LET sprint_df == _filter_data(self, <<Scalar("Sprint_ID", Head(sprint_ids))>>)
             rest == _compare_sprints(self, Tail(sprint_ids), metrics)
         IN  IF Len0(sprint_df) = 0 THEN rest
             ELSE <<CompareMetrics("Sprint_ID" :> Head(sprint_ids), sprint_df, metrics)>>
                  \o rest

\* the chain of if/elif of _trend_analysis over one group
TrendPoint(data_point, group, metric) ==
    IF metric = "velocity"
    THEN ("value" :> ColumnSum(DoneRows(group), "Story_Points")) @@ data_point
    ELSE IF metric = "completion_rate"
    THEN ("value" :> RatePercent(ColumnSum(DoneRows(group), "Story_Points"),
                                 ColumnSum(group, "Story_Points"))) @@ data_point
    ELSE IF metric = "bug_count"
    THEN ("value" :> Len0(Where(group, {r \in Rows(group) : r["Type"] = "Bug"}))) @@ data_point
    ELSE IF metric = "avg_cycle_time"
    THEN ("value" :> AvgCycleTime(group)) @@ data_point
    ELSE data_point

\* _trend_analysis(metric, group_by='Sprint_ID'): one data point per group.
\* The points are held as a function of the group key; groupby yields them in
\* the order of the keys.
_trend_analysis(self, params) ==
    LET metric == params["metric"]
        group_by == Get(params, "group_by", "Sprint_ID")
    IN  IF group_by \notin self.columns THEN Ok(<<>>)
        ELSE Ok([name \in GroupKeys(self, group_by) |->
                    TrendPoint(group_by :> name,
                               Where(self, {r \in Rows(self) : r[group_by] = name}), metric)])

\* the chain of if/elif of _team_comparison over one assignee
MemberData(member_data, group, metric) ==
    IF metric = "velocity"
    THEN ("value" :> ColumnSum(DoneRows(group), "Story_Points")) @@ member_data
    ELSE IF metric = "completion_rate"
    THEN ("value" :> RatePercent(Len0(DoneRows(group)), Len0(group))) @@ member_data
    ELSE IF metric = "avg_cycle_time"
    THEN ("value" :> AvgCycleTime(group)) @@ member_data
    ELSE IF metric = "ticket_count"
    THEN ("value" :> Len0(group)) @@ member_data
    ELSE member_data

\* _team_comparison: the member rows; sort_values('value') raises KeyError when
\* the frame has no 'value' column (no row sets it, or there is no row).  The
\* rows are held as a function of the assignee: sort_values orders them by
\* value, descending.
_team_comparison(self, params) ==
    LET metric == params["metric"]
        comparison_data ==
            [assignee \in GroupKeys(self, "Assignee") |->
                MemberData("Assignee" :> assignee,
                           Where(self, {r \in Rows(self) : r["Assignee"] = assignee}), metric)]
    IN  IF \E a \in DOMAIN comparison_data : "value" \in DOMAIN comparison_data[a]
        THEN Ok(comparison_data)
        ELSE Raise("KeyError")

-----------------------------------------------------------------------------
(* Aggregation.  An aggregate is the exact number n/d, or its square root  *)
(* (root), with d = 0 for NaN.                                             *)

Abs(x) == IF x < 0 THEN 0 - x ELSE x

Rat(n, d) ==
    LET g == Gcd(Abs(n), d)
    IN  IF g = 0 THEN [n |-> 0, d |-> 1, root |-> FALSE]
        ELSE [n |-> n \div g, d |-> d \div g, root |-> FALSE]

NaNValue == [n |-> 0, d |-> 0, root |-> FALSE]
Zero == Rat(0, 1)
Root(r) == [n |-> r.n, d |-> r.d, root |-> r.n # 0]

IsNaNValue(x) == x.d = 0

\* the non-null values of a numeric column, ascending
RECURSIVE InsertInt(_, _)
InsertInt(sorted, x) ==
    IF sorted = <<>> THEN <<x>>
    ELSE IF x <= Head(sorted) THEN <<x>> \o sorted
    ELSE <<Head(sorted)>> \o InsertInt(Tail(sorted), x)

RECURSIVE SortedValues(_, _)
SortedValues(rows, col) ==
    IF rows = <<>> THEN <<>>
    ELSE IF IsNum(Head(rows)[col]) THEN InsertInt(SortedValues(Tail(rows), col), Head(rows)[col].v)
    ELSE SortedValues(Tail(rows), col)

RECURSIVE SumSquares(_, _)
SumSquares(rows, col) ==
    IF rows = <<>> THEN 0
    ELSE (IF IsNum(Head(rows)[col]) THEN Head(rows)[col].v * Head(rows)[col].v ELSE 0)
         + SumSquares(Tail(rows), col)

\* Series.quantile(q4 / 4) by linear interpolation, for q4 in 1..3
Quantile(sorted, q4) ==
    LET n == Len(sorted)
        pos == q4 * (n - 1)
        lo == pos \div 4 + 1
        part == pos % 4
    IN  IF n = 0 THEN NaNValue
        ELSE IF part = 0 THEN Rat(sorted[lo], PointScale)
        ELSE Rat(4 * sorted[lo] + part * (sorted[lo + 1] - sorted[lo]), 4 * PointScale)

\* one aggregation function of pandas over the non-null values of a numeric
\* column: sum and count of nothing are 0, the others NaN; std is the sample
\* standard deviation (ddof = 1), NaN for fewer than two values
Aggregate(t, col, func) ==
    LET n == CountCells(t.rows, col)
        total == SumCells(t.rows, col)
        sorted == SortedValues(t.rows, col)
    IN  CASE func = "sum" -> Rat(total, PointScale)
          [] func = "count" -> Rat(n, 1)
          [] func = "mean" -> IF n = 0 THEN NaNValue ELSE Rat(total, PointScale * n)
          [] func = "median" -> Quantile(sorted, 2)
          [] func = "min" -> IF n = 0 THEN NaNValue ELSE Rat(sorted[1], PointScale)
          [] func = "max" -> IF n = 0 THEN NaNValue ELSE Rat(sorted[n], PointScale)
          [] func = "std" ->
                IF n < 2 THEN NaNValue
                ELSE Root(Rat(n * SumSquares(t.rows, col) - total * total,
                              n * (n - 1) * PointScale * PointScale))

AggFunctions == {"sum", "count", "mean", "median", "min", "max", "std"}

\* the rows whose cells in the columns of cols are the values of key
GroupOf(t, cols, key) ==
    Where(t, {r \in Rows(t) : \A i \in 1..Len(cols) : r[cols[i]] = key[i]})

\* df.groupby(cols): the distinct tuples of non-null key values
GroupTuples(t, cols) ==
    {key \in {[i \in 1..Len(cols) |-> t.rows[j][cols[i]]] : j \in 1..Len(t.rows)} :
        \A i \in 1..Len(cols) : key[i] # NullStr}

\* round(float(x), 2) if not pd.isna(x) else 0, in hundredths
RoundValue(x) ==
    IF IsNaNValue(x) THEN 0
    ELSE IF x.root THEN RoundSqrtRatio(100, x.n, 1, x.d, 100 * (x.n \div x.d + 2))
    ELSE RoundHalfEven(100 * x.n, x.d)

\* the (column, function) pairs of an aggregations dict: a sequence of
\* [column, funcs], funcs the sequence of function names (one name for a str)
RECURSIVE AggPairs(_)
AggPairs(aggregations) ==
    IF aggregations = <<>> THEN {}
    ELSE {<<Head(aggregations).column, Head(aggregations).funcs[i]>> :
             i \in 1..Len(Head(aggregations).funcs)}
         \cup AggPairs(Tail(aggregations))

\* _aggregate_data(group_by=None, aggregations=None); a key f"{col}_{func}" of
\* the ungrouped result is held as the pair <<col, func>>.  Grouping is by
\* string columns, aggregation over numeric columns.
_aggregate_data(self, params) ==
    LET group_by == Get(params, "group_by", <<>>)
        aggregations == Get(params, "aggregations", <<>>)
        pairs == AggPairs(aggregations)
    IN  IF group_by # <<>>
        THEN IF \E i \in 1..Len(group_by) : group_by[i] \notin self.columns
             THEN Raise("KeyError")
             ELSE IF aggregations # <<>>
             THEN IF \E pr \in pairs : pr[1] \notin self.columns THEN Raise("KeyError")
                  ELSE IF \E pr \in pairs : pr[2] \notin AggFunctions
                  THEN Raise("AttributeError")
                  ELSE Ok([key \in GroupTuples(self, group_by) |->
                              [pr \in pairs |->
                                  Aggregate(GroupOf(self, group_by, key), pr[1], pr[2])]])
             ELSE Ok([key \in GroupTuples(self, group_by) |->
                         [count |-> Len0(GroupOf(self, group_by, key))]])
        ELSE IF aggregations # <<>>
        THEN Ok([pr \in {q \in pairs : q[1] \in self.columns /\ q[2] \in AggFunctions} |->
                    Aggregate(self, pr[1], pr[2])])
        ELSE Ok([count |-> Len0(self)])

\* _group_by_analysis(group_columns, value_column, aggregation='sum'): an
\* aggregation name outside agg_map falls back to sum
_group_by_analysis(self, params) ==
    LET group_columns == params["group_columns"]
        value_column == params["value_column"]
        aggregation == Get(params, "aggregation", "sum")
        func == IF aggregation \in AggFunctions THEN aggregation ELSE "sum"
    IN  IF value_column \notin self.columns THEN Ok(<<>>)
        ELSE IF \E i \in 1..Len(group_columns) : group_columns[i] \notin self.columns
        THEN Raise("KeyError")
        ELSE Ok([key \in GroupTuples(self, group_columns) |->
                    Aggregate(GroupOf(self, group_columns, key), value_column, func)])

\* _time_series_analysis with the date_only column written to self.df
_time_series_analysis_MutNoCopy(self, params) ==
    LET date_column == params["date_column"]
    IN  IF date_column \notin self.columns \/ params["value_column"] \notin self.columns
        THEN [self |-> self, ret |-> Ok(<<>>)]
        ELSE [self |-> MkTable(self.columns \cup {"date_only"},
                               [i \in 1..Len(self.rows) |->
                                   ("date_only" :> self.rows[i][date_column]) @@ self.rows[i]]),
              ret |-> Ok(<<>>)]

\* _time_series_analysis(date_column, value_column, aggregation='sum'): the
\* rows with a date, grouped by its day; date_only is added to a copy of
\* self.df.  A date is held by its day.
_time_series_analysis(self, params) ==
    LET date_column == params["date_column"]
        value_column == params["value_column"]
        aggregation == Get(params, "aggregation", "sum")
        func == IF aggregation \in {"sum", "mean", "count"} THEN aggregation ELSE "sum"
        dated == Where(self, {r \in Rows(self) : IsNum(r[date_column])})
    IN  IF date_column \notin self.columns \/ value_column \notin self.columns
        THEN [self |-> self, ret |-> Ok(<<>>)]
        ELSE [self |-> self,
              ret |-> Ok([day \in {dated.rows[i][date_column].v : i \in 1..Len(dated.rows)} |->
                            Aggregate(Where(dated, {r \in Rows(dated) : r[date_column].v = day}),
                                      value_column, func)])]

\* the pivot table: its index values, its column values and its cells
PivotFrame(index, columns, cells) == [index |-> index, columns |-> columns, cells |-> cells]

EmptyPivot == PivotFrame({}, {}, <<>>)

\* the groups of pd.pivot_table: the (index value, column value) pairs that
\* have rows
PivotGroups(t, index, columns) == GroupTuples(t, <<index, columns>>)

\* pivot_table without fill_value: a cell with no group stays NaN
PivotCell_MutNoFill(kept, agged, key) ==
    IF key \in kept THEN agged[key] ELSE NaNValue

\* one cell of the unstacked table after fillna(fill_value=0)
PivotCell(kept, agged, key) ==
    IF key \in kept THEN agged[key] ELSE Zero

\* _pivot_analysis(index, columns, values, aggfunc='sum'): pd.pivot_table
\* aggregates each group, drops the groups whose aggregate is NaN (dropna),
\* unstacks what is left and fills the missing cells with 0; any exception
\* gives an empty frame.  index and columns are string columns, values a
\* numeric one.
_pivot_analysis(self, params) ==
    LET index == params["index"]
        columns == params["columns"]
        values == params["values"]
        aggfunc == Get(params, "aggfunc", "sum")
    IN  IF {index, columns, values} \subseteq self.columns /\ aggfunc \in AggFunctions
           /\ index # columns
        THEN LET groups == PivotGroups(self, index, columns)
                 agged == [key \in groups |->
                              Aggregate(GroupOf(self, <<index, columns>>, key), values, aggfunc)]
                 kept == {key \in groups : ~IsNaNValue(agged[key])}
                 idx == {key[1] : key \in kept}
                 cols == {key[2] : key \in kept}
             IN  PivotFrame(idx, cols,
                            [key \in idx \X cols |-> PivotCell(kept, agged, key)])
        ELSE EmptyPivot

\* _statistical_summary whose count is the number of rows
_statistical_summary_MutCountRows(self, params) ==
    LET columns == Get(params, "columns", <<>>)
        selected == IF columns # <<>> THEN {columns[i] : i \in 1..Len(columns)}
                    ELSE self.columns \cap NumericColumns
    IN  IF ~(selected \subseteq self.columns) THEN Raise("KeyError")
        ELSE Ok([col \in selected |->
                    [count |-> Len(self.rows),
                     mean |-> RoundValue(Aggregate(self, col, "mean")),
                     median |-> RoundValue(Aggregate(self, col, "median")),
                     std |-> RoundValue(Aggregate(self, col, "std")),
                     min |-> RoundValue(Aggregate(self, col, "min")),
                     max |-> RoundValue(Aggregate(self, col, "max")),
                     q25 |-> RoundValue(Quantile(SortedValues(self.rows, col), 1)),
                     q75 |-> RoundValue(Quantile(SortedValues(self.rows, col), 3))]])

\* _statistical_summary(columns=None), every statistic in hundredths
_statistical_summary(self, params) ==
    LET columns == Get(params, "columns", <<>>)
        selected == IF columns # <<>> THEN {columns[i] : i \in 1..Len(columns)}
                    ELSE self.columns \cap NumericColumns
    IN  IF ~(selected \subseteq self.columns) THEN Raise("KeyError")
        ELSE Ok([col \in selected |->
                    [count |-> CountCells(self.rows, col),
                     mean |-> RoundValue(Aggregate(self, col, "mean")),
                     median |-> RoundValue(Aggregate(self, col, "median")),
                     std |-> RoundValue(Aggregate(self, col, "std")),
                     min |-> RoundValue(Aggregate(self, col, "min")),
                     max |-> RoundValue(Aggregate(self, col, "max")),
                     q25 |-> RoundValue(Quantile(SortedValues(self.rows, col), 1)),
                     q75 |-> RoundValue(Quantile(SortedValues(self.rows, col), 3))]])

-----------------------------------------------------------------------------
(* Dispatch *)

\* metric_calculators of _calculate_metric
metric_calculators ==
    [completion_rate |-> "_calc_completion_rate",
     velocity |-> "_calc_velocity",
     capacity_utilization |-> "_calc_capacity_utilization",
     cycle_time_avg |-> "_calc_avg_cycle_time",
     bug_resolution_rate |-> "_calc_bug_resolution_rate",
     team_productivity |-> "_calc_team_productivity",
     sprint_health |-> "_calc_sprint_health",
     work_distribution |-> "_calc_work_distribution",
     quality_metrics |-> "_calc_quality_metrics",
     burndown_data |-> "_calc_burndown_data"]

\* calculator(**params)
RunCalculator(calculator, self, params) ==
    CASE calculator = "_calc_completion_rate" -> Ok(_calc_completion_rate(self, params))
      [] calculator = "_calc_velocity" -> Ok(_calc_velocity(self, params))
      [] calculator = "_calc_capacity_utilization" -> _calc_capacity_utilization(self, params)
      [] calculator = "_calc_avg_cycle_time" -> Ok(_calc_avg_cycle_time(self, params))
      [] calculator = "_calc_bug_resolution_rate" -> Ok(_calc_bug_resolution_rate(self, params))
      [] calculator = "_calc_team_productivity" -> Ok(_calc_team_productivity(self, params))
      [] calculator = "_calc_sprint_health" -> Ok(_calc_sprint_health(self, params))
      [] calculator = "_calc_work_distribution" -> Ok(_calc_work_distribution(self, params))
      [] calculator = "_calc_quality_metrics" -> Ok(_calc_quality_metrics(self, params))
      [] calculator = "_calc_burndown_data" -> _calc_burndown_data(self, params)

\* the keyword arguments without k
Without(kw, k) == [x \in DOMAIN kw \ {k} |-> kw[x]]

\* _calculate_metric with an unknown name computed as the velocity
_calculate_metric_MutDefault(self, kwargs) ==
    LET name == kwargs["metric_name"]
        calculator == IF name \in DOMAIN metric_calculators THEN metric_calculators[name]
                      ELSE "_calc_velocity"
    IN  [ret |-> RunCalculator(calculator, self, Without(kwargs, "metric_name")),
         ran |-> <<"_calculate_metric", calculator>>]

\* _calculate_metric(metric_name, **params)
_calculate_metric(self, kwargs) ==
    LET name == kwargs["metric_name"]
        calculator == IF name \in DOMAIN metric_calculators THEN metric_calculators[name]
                      ELSE None
    IN  IF calculator = None
        THEN [ret |-> Raise("ValueError: Unknown metric"), ran |-> <<"_calculate_metric">>]
        ELSE [ret |-> RunCalculator(calculator, self, Without(kwargs, "metric_name")),
              ran |-> <<"_calculate_metric", calculator>>]

\* query_methods of execute_query
query_methods ==
    [filter |-> "_filter_data",
     aggregate |-> "_aggregate_data",
     group_by |-> "_group_by_analysis",
     calculate_metric |-> "_calculate_metric",
     compare_sprints |-> "_compare_sprints",
     trend_analysis |-> "_trend_analysis",
     team_comparison |-> "_team_comparison",
     time_series |-> "_time_series_analysis",
     pivot |-> "_pivot_analysis",
     statistical_summary |-> "_statistical_summary"]

Returned(self, ret, method) == [self |-> self, ret |-> ret, ran |-> <<method>>]

\* method(**kwargs): what the method leaves in self.df, what it returns or
\* raises, and the methods that ran
RunMethod(method, self, kwargs) ==
    CASE method = "_filter_data" ->
            Returned(self, Ok(_filter_data(self, kwargs["conditions"])), method)
      [] method = "_aggregate_data" -> Returned(self, _aggregate_data(self, kwargs), method)
      [] method = "_group_by_analysis" ->
            Returned(self, _group_by_analysis(self, kwargs), method)
      [] method = "_calculate_metric" ->
            LET m == _calculate_metric(self, kwargs)
            IN  [self |-> self, ret |-> m.ret, ran |-> m.ran]
      [] method = "_compare_sprints" ->
            Returned(self,
                     Ok(_compare_sprints(self, kwargs["sprint_ids"], kwargs["metrics"])),
                     method)
      [] method = "_trend_analysis" -> Returned(self, _trend_analysis(self, kwargs), method)
      [] method = "_team_comparison" -> Returned(self, _team_comparison(self, kwargs), method)
      [] method = "_time_series_analysis" ->
            LET m == _time_series_analysis(self, kwargs)
            IN  [self |-> m.self, ret |-> m.ret, ran |-> <<method>>]
      [] method = "_pivot_analysis" ->
            Returned(self, Ok(_pivot_analysis(self, kwargs)), method)
      [] method = "_statistical_summary" ->
            Returned(self, _statistical_summary(self, kwargs), method)

\* execute_query with an unknown query type run as a statistical summary
execute_query_MutFallback(self, query_type, kwargs) ==
    LET method == IF query_type \in DOMAIN query_methods THEN query_methods[query_type]
                  ELSE "_statistical_summary"
    IN  RunMethod(method, self, kwargs)

\* execute_query whose filter narrows self.df itself instead of a copy of it
execute_query_MutStickyFilter(self, query_type, kwargs) ==
    LET method == IF query_type \in DOMAIN query_methods THEN query_methods[query_type]
                  ELSE None
    IN  IF method = None
        THEN [self |-> self, ret |-> Raise("ValueError: Unknown query type"), ran |-> <<>>]
        ELSE IF method = "_filter_data"
        THEN LET kept == _filter_data(self, kwargs["conditions"])
             IN  [self |-> kept, ret |-> Ok(kept), ran |-> <<method>>]
        ELSE RunMethod(method, self, kwargs)

\* execute_query(query_type, **kwargs)
execute_query(self, query_type, kwargs) ==
    LET method == IF query_type \in DOMAIN query_methods THEN query_methods[query_type]
                  ELSE None
    IN  IF method = None
        THEN [self |-> self, ret |-> Raise("ValueError: Unknown query type"), ran |-> <<>>]
        ELSE RunMethod(method, self, kwargs)

-----------------------------------------------------------------------------
(* SprintDataAnalyzer: the table it loads from the file and its data       *)
(* summary. self.df is a cell the loader assigns and every statement of a  *)
(* report reads afresh.                                                    *)

LoadedDateColumns == {"Created_Date", "Started_Date", "Completed_Date"}

\* _load_data after read_csv: the date columns and Story_Points of the table
\* just read are coerced in place
CoerceLoaded(t) ==
    MkTable(t.columns,
            [i \in 1..Len(t.rows) |->
                [c \in DOMAIN t.rows[i] |->
                    IF c \in LoadedDateColumns /\ c \in t.columns THEN ToDatetime(t.rows[i][c])
                    ELSE IF c = "Story_Points" /\ c \in t.columns
                    THEN ToNumeric(t.rows[i][c])
                    ELSE t.rows[i][c]]])

\* int(x) of a sum of story points held in units of 1/256
IntPoints(v) == v \div PointScale

\* round(x, 1) of n/d, in tenths
Round1(n, d) == RoundHalfEven(10 * n, d)

\* len(self.df[self.df[col] == value])
CountWhere(t, col, value) == Len0(Where(t, {r \in Rows(t) : r[col] = value /\ value # NullStr}))

\* the locals of get_data_summary that are assigned before the return
\* statement, in the order of their assignments
SummaryLocals ==
    <<"total_tickets", "done_tickets", "total_points", "completed_points", "sprints",
      "team_size">>

NoLocals ==
    [total_tickets |-> 0, done_tickets |-> 0, total_points |-> 0, completed_points |-> 0,
     sprints |-> <<>>, team_size |-> 0]

\* the assignment of one local of get_data_summary, read from the table t that
\* self.df refers to when the statement runs
AssignLocal(name, t, l) ==
    CASE name = "total_tickets" -> [l EXCEPT !.total_tickets = Len0(t)]
      [] name = "done_tickets" -> [l EXCEPT !.done_tickets = CountWhere(t, "Status", "Done")]
      [] name = "total_points" ->
            [l EXCEPT !.total_points =
                IF "Story_Points" \in t.columns
                THEN IntPoints(ColumnSum(t, "Story_Points")) ELSE 0]
      [] name = "completed_points" ->
            [l EXCEPT !.completed_points =
                IF "Story_Points" \in t.columns
                THEN IntPoints(ColumnSum(DoneRows(t), "Story_Points")) ELSE 0]
      [] name = "sprints" ->
            [l EXCEPT !.sprints =
                IF "Sprint_ID" \in t.columns THEN UniqueSeq(t.rows, "Sprint_ID", {}) ELSE <<>>]
      [] name = "team_size" ->
            [l EXCEPT !.team_size =
                IF "Assignee" \in t.columns
                THEN Cardinality(Distinct(t, "Assignee") \ {NullStr}) ELSE 0]

\* strftime('%Y-%m-%d') of a day
StrfTime(day) == CHOOSE s \in DOMAIN DateLiteral : DateLiteral[s] = day

\* the earliest and the latest Created_Date, None without the column or when
\* every date is missing
DateRange(t) ==
    LET days == IF "Created_Date" \in t.columns
                THEN {c.v : c \in {x \in Distinct(t, "Created_Date") : IsNum(x)}} ELSE {}
    IN  IF days = {} THEN [start |-> None, end |-> None]
        ELSE [start |-> StrfTime(CHOOSE d \in days : \A e \in days : d <= e),
              end |-> StrfTime(CHOOSE d \in days : \A e \in days : d >= e)]

\* the return statement of get_data_summary: the dict built from the locals
\* and from the table t that self.df refers to when the statement runs; the
\* rates and averages are rounded to one decimal and held in tenths
ReturnSummary(t, l) ==
    LET num_sprints == Len(l.sprints)
    IN  [total_tickets |-> l.total_tickets,
         done_tickets |-> l.done_tickets,
         in_progress_tickets |-> CountWhere(t, "Status", "In Progress"),
         todo_tickets |-> CountWhere(t, "Status", "To Do"),
         overall_completion_rate |->
             IF l.total_tickets > 0 THEN Round1(100 * l.done_tickets, l.total_tickets) ELSE 0,
         sprints |-> l.sprints,
         total_sprints |-> num_sprints,
         ticket_types |-> IF "Type" \in t.columns THEN ValueCounts(t, "Type") ELSE <<>>,
         status_distribution |->
             IF "Status" \in t.columns THEN ValueCounts(t, "Status") ELSE <<>>,
         total_story_points |-> l.total_points,
         completed_story_points |-> l.completed_points,
         points_completion_rate |->
             IF l.total_points > 0 THEN Round1(100 * l.completed_points, l.total_points) ELSE 0,
         average_velocity_per_sprint |->
             IF num_sprints > 0 THEN Round1(l.completed_points, num_sprints) ELSE 0,
         team_size |-> l.team_size,
         avg_points_per_person |->
             IF l.team_size > 0 THEN Round1(l.completed_points, l.team_size) ELSE 0,
         total_bugs |-> CountWhere(t, "Type", "Bug"),
         total_stories |-> CountWhere(t, "Type", "Story"),
         total_tasks |-> CountWhere(t, "Type", "Task"),
         date_range |-> DateRange(t)]

\* the locals after the first n assignments, all read from the table t
RECURSIVE LocalsAfter(_, _)
LocalsAfter(n, t) ==
    IF n = 0 THEN NoLocals ELSE AssignLocal(SummaryLocals[n], t, LocalsAfter(n - 1, t))

\* get_data_summary() run to its end on one table
get_data_summary(t) == ReturnSummary(t, LocalsAfter(Len(SummaryLocals), t))

\* Python's None where a number may stand
NoneCell == [t |-> "none", v |-> 0, s |-> ""]

\* bool(x) of None or a float: NaN is true, 0 is false
TruthyCell(x) == x.t = "nan" \/ (x.t = "num" /\ x.v # 0)

\* get_sprint_summary(sprint_id=None) with self.df loaded.  Hours are whole
\* numbers; capacity_utilization_percent is held in tenths.
get_sprint_summary(self, sprint_id) ==
    LET sprint_df == IF Truthy(sprint_id)
                     THEN Where(self, {r \in Rows(self) : r["Sprint_ID"] = sprint_id})
                     ELSE self
        total_tickets == Len0(sprint_df)
        done_tickets == CountWhere(sprint_df, "Status", "Done")
        total_points == IntPoints(ColumnSum(sprint_df, "Story_Points"))
        completed_points == IntPoints(ColumnSum(DoneRows(sprint_df), "Story_Points"))
        in_progress_points ==
            IntPoints(ColumnSum(Where(sprint_df, {r \in Rows(sprint_df) :
                                                     r["Status"] = "In Progress"}),
                                "Story_Points"))
        inSprint == Truthy(sprint_id) /\ "Team_Capacity_Hours" \in sprint_df.columns
        capacity == IF inSprint /\ Len0(sprint_df) > 0
                    THEN sprint_df.rows[1]["Team_Capacity_Hours"] ELSE NoneCell
        timed == inSprint /\ TruthyCell(capacity) /\ "Dev_Time_Hours" \in sprint_df.columns
        actual_hours == SumCells(sprint_df.rows, "Dev_Time_Hours")
                        + SumCells(sprint_df.rows, "QA_Time_Hours")
        \* capacity_utilization is not None
        computed == timed /\ IsNum(capacity) /\ capacity.v > 0
    IN  IF timed /\ "QA_Time_Hours" \notin sprint_df.columns THEN Raise("AttributeError")
        ELSE Ok([sprint_id |-> IF Truthy(sprint_id) THEN sprint_id ELSE "All Sprints",
                 total_tickets |-> total_tickets,
                 done_tickets |-> done_tickets,
                 in_progress_tickets |-> CountWhere(sprint_df, "Status", "In Progress"),
                 todo_tickets |-> CountWhere(sprint_df, "Status", "To Do"),
                 completion_rate_by_count |->
                     IF total_tickets > 0 THEN Round1(100 * done_tickets, total_tickets) ELSE 0,
                 status_breakdown |-> ValueCounts(sprint_df, "Status"),
                 type_breakdown |-> ValueCounts(sprint_df, "Type"),
                 total_story_points |-> total_points,
                 completed_story_points |-> completed_points,
                 in_progress_story_points |-> in_progress_points,
                 points_completion_rate |->
                     IF total_points > 0 THEN Round1(100 * completed_points, total_points)
                     ELSE 0,
                 velocity |-> completed_points,
                 team_members |-> UniqueSeq(sprint_df.rows, "Assignee", {}),
                 team_size |-> NUnique(sprint_df, "Assignee"),
                 high_priority_tickets |-> CountWhere(sprint_df, "Priority", "High"),
                 blocked_tickets |-> IF "State" \in sprint_df.columns
                                     THEN CountWhere(sprint_df, "State", "Blocked")
                                     ELSE 0,
                 team_capacity_hours |-> capacity,
                 capacity_utilization_percent |->
                     IF computed /\ actual_hours # 0
                     THEN Num(Round1(100 * actual_hours, capacity.v))
                     ELSE NoneCell])

-----------------------------------------------------------------------------
(* SprintAnalysisAgent.query.  A question is held as the keywords its      *)
(* lower-cased text contains and the sprint id it names; a value that is   *)
(* not a string has is_str FALSE.  env.raises names the analyzer reports,  *)
(* the chart creators and the LLM call that raise when called, env.empty   *)
(* the chart creators that have nothing to draw.  A text is the sequence   *)
(* of the parts it is concatenated from.  Every operator returns what it   *)
(* returns or raises (ret) and the calls that raised on the way (raised).  *)

Contains(question, words) == question.words \cap words # {}

Done_(value, raised) == [ret |-> Ok(value), raised |-> raised]
Failed_(error, raised) == [ret |-> Raise(error), raised |-> raised]

\* _get_data_summary, _get_sprint_summary, _get_team_performance,
\* _get_bug_analysis: json.dumps of the analyzer's report
Report(name, env) ==
    IF name \in env.raises THEN Failed_(name, {name}) ELSE Done_(<<name>>, {})

\* json.loads(self._create_<name>_chart("")): the creator returns the chart's
\* JSON, or "Unable to create chart", which is not JSON
LoadChart(name, env) ==
    IF name \in env.raises THEN Failed_(name, {name})
    ELSE IF name \in env.empty THEN Failed_("JSONDecodeError", {name})
    ELSE Done_(name, {})

\* _get_relevant_data: the report the question's keywords select; the data
\* summary when that report raises
_get_relevant_data(question, env) ==
    LET name == IF Contains(question, {"bug"}) THEN "get_bug_analysis"
                ELSE IF Contains(question, {"team", "performance", "member"})
                THEN "get_team_performance"
                ELSE IF Contains(question, {"spr-", "sprint"}) THEN "get_sprint_summary"
                ELSE "get_data_summary"
        first == Report(name, env)
    IN  IF first.ret.status = "ok" THEN first
        ELSE LET again == Report("get_data_summary", env)
             IN  [again EXCEPT !.raised = first.raised \cup again.raised]

\* the charts appended one after the other until one raises
RECURSIVE AppendCharts(_, _, _)
AppendCharts(names, env, charts) ==
    IF names = <<>> THEN [charts |-> charts, raised |-> {}]
    ELSE LET chart == LoadChart(Head(names), env)
         IN  IF chart.ret.status = "ok"
             THEN AppendCharts(Tail(names), env, Append(charts, chart.ret.value))
             ELSE [charts |-> charts, raised |-> chart.raised]

\* _generate_appropriate_charts: an exception ends the generation and is
\* logged; the charts made so far are returned
_generate_appropriate_charts(question, env) ==
    LET If(cond, name) == IF cond THEN <<name>> ELSE <<>>
        names == If(Contains(question, {"velocity"}), "velocity")
                 \o If(Contains(question, {"team", "performance"}), "team")
                 \o If(Contains(question, {"status"}) /\ Contains(question, {"chart"}), "status")
                 \o If(Contains(question, {"priority"}) /\ Contains(question, {"chart"}),
                       "priority")
                 \o If(Contains(question, {"bug"})
                       /\ Contains(question, {"chart", "visualize", "graph"}), "bug")
        made == AppendCharts(names, env, <<>>)
    IN  IF /\ made.raised = {}
           /\ made.charts = <<>>
           /\ Contains(question, {"overview", "summary", "show me"})
        THEN AppendCharts(<<"status">>, env, <<>>)
        ELSE made

\* the answers of _direct_query for a chart and for a report
ChartAnswer ==
    [velocity |-> "I've created a sprint velocity chart showing story points by sprint and status.",
     team |-> "I've created a team performance chart showing story points by team member.",
     status |-> "I've created a status distribution chart.",
     priority |-> "I've created a priority distribution chart.",
     bug |-> "I've created a bug distribution chart by priority and status."]

ReportAnswer ==
    [get_sprint_summary |-> "Sprint Summary:\n",
     get_data_summary |-> "Overall Data Summary:\n",
     get_team_performance |-> "Team Performance:\n",
     get_bug_analysis |-> "Bug Analysis:\n",
     default |-> "Here's a summary of the sprint data:\n"]

DirectError ==
    <<"I can see your question but encountered an error processing it. Please try rephrasing or ask about: sprint summary, team performance, bug analysis, or request specific charts.">>

\* _direct_query: the answer by keywords; any exception gives DirectError
_direct_query(question, env) ==
    LET chart ==
            IF ~Contains(question, {"chart", "graph", "visualize", "visualization", "plot"})
            THEN None
            ELSE IF Contains(question, {"velocity", "sprint"}) THEN "velocity"
            ELSE IF Contains(question, {"team", "performance"}) THEN "team"
            ELSE IF Contains(question, {"status"}) THEN "status"
            ELSE IF Contains(question, {"priority"}) THEN "priority"
            ELSE IF Contains(question, {"bug"}) THEN "bug"
            ELSE None
        made == IF chart = None THEN [charts |-> <<>>, raised |-> {}]
                ELSE AppendCharts(<<chart>>, env, <<>>)
        created == IF made.charts = <<>> THEN <<>> ELSE <<ChartAnswer[chart]>>
        report ==
            IF Contains(question, {"summary", "overview", "overall"})
            THEN IF Contains(question, {"sprint"})
                 THEN IF question.sprint_id # None THEN "get_sprint_summary" ELSE None
                 ELSE "get_data_summary"
            ELSE IF Contains(question, {"team"}) /\ Contains(question, {"performance"})
            THEN "get_team_performance"
            ELSE IF Contains(question, {"bug"}) THEN "get_bug_analysis"
            ELSE IF created = <<>> THEN "default"
            ELSE None
        data == IF report = None THEN Done_(<<>>, {})
                ELSE Report(IF report = "default" THEN "get_data_summary" ELSE report, env)
    IN  IF made.raised # {} THEN Done_([answer |-> DirectError, charts |-> <<>>], made.raised)
        ELSE IF data.ret.status # "ok"
        THEN Done_([answer |-> DirectError, charts |-> <<>>], data.raised)
        ELSE Done_([answer |-> IF report = None THEN created
                                ELSE <<ReportAnswer[report]>> \o data.ret.value,
                    charts |-> made.charts], {})

\* _process_query_with_llm: the data, the charts, then the LLM's answer, and
\* the direct answer when the LLM call raises
_process_query_with_llm(question, env) ==
    IF ~question.is_str THEN Failed_("AttributeError", {"question.lower"})
    ELSE LET data_context == _get_relevant_data(question, env)
             charts ==
                 IF Contains(question, {"chart", "graph", "visualize", "visualization",
                                        "plot", "show me", "velocity", "trend"})
                 THEN _generate_appropriate_charts(question, env)
                 ELSE [charts |-> <<>>, raised |-> {}]
             before == data_context.raised \cup charts.raised
         IN  IF data_context.ret.status # "ok" THEN data_context
             ELSE IF "llm" \in env.raises
             THEN LET direct == _direct_query(question, env)
                  IN  [direct EXCEPT !.raised = before \cup {"llm"} \cup direct.raised]
             ELSE Done_([answer |-> <<"llm.invoke">> \o data_context.ret.value
                                    \o (IF charts.charts # <<>>
                                        THEN <<"\n\nI've generated visual charts to help illustrate this data.">>
                                        ELSE <<>>),
                         charts |-> charts.charts],
                        before)

QueryError ==
    <<"I encountered an error processing your question. Please try rephrasing it.">>

\* query with nothing around _process_query_with_llm to catch what it raises
query_MutNoCatch(question, env) == _process_query_with_llm(question, env)

\* query(question)
query(question, env) ==
    LET answered == _process_query_with_llm(question, env)
    IN  IF answered.ret.status = "ok" THEN answered
        ELSE Done_([answer |-> QueryError, charts |-> <<>>], answered.raised)

-----------------------------------------------------------------------------
(* DashboardAnalyzer (src/dashboard_analyzer.py): the table it holds and    *)
(* what each of its queries does to it.  The chart data a query returns is  *)
(* held only as far as it is read back from self.df.                        *)

\* _preprocess_data: the date and numeric columns of self.df are coerced
_preprocess_data(t) ==
    MkTable(t.columns,
            [i \in 1..Len(t.rows) |->
                [c \in DOMAIN t.rows[i] |->
                    IF c \in {"Created_Date", "Started_Date", "Completed_Date",
                               "Sprint_Start", "Sprint_End"} /\ c \in t.columns
                    THEN ToDatetime(t.rows[i][c])
                    ELSE IF c \in {"Story_Points", "Cycle_Time_Days", "Dev_Time_Hours",
                                    "QA_Time_Hours", "Estimated_Hours", "Team_Capacity_Hours"}
                            /\ c \in t.columns
                    THEN ToNumeric(t.rows[i][c])
                    ELSE t.rows[i][c]]])

\* DashboardAnalyzer(df): self.df = df.copy(), then preprocessed
DashboardAnalyzer(data) == [caller |-> data, self |-> _preprocess_data(data)]

\* Series.fillna(0) on one cell
FillNa0(c) == IF IsNum(c) THEN c.v ELSE 0

\* the queries that only read self.df: the rows they select are new frames
\* (bugs and spillover are copies), none assigns to self.df
ReadingQueries ==
    {"get_kpis", "get_state_distribution", "get_velocity_chart", "get_cycle_time_analysis",
     "get_bugs_breakdown", "get_spillover_overview", "get_raw_data"}

\* get_workload_distribution: the column Total_Hours is assigned to self.df,
\* then the hours are summed by assignee (total_hours of every assignee)
get_workload_distribution(self) ==
    IF ~({"Dev_Time_Hours", "QA_Time_Hours"} \subseteq self.columns)
    THEN [self |-> self, ret |-> Raise("KeyError")]
    ELSE LET assigned ==
                 MkTable(self.columns \cup {"Total_Hours"},
                         [i \in 1..Len(self.rows) |->
                             ("Total_Hours" :>
                                  Num(FillNa0(self.rows[i]["Dev_Time_Hours"])
                                      + FillNa0(self.rows[i]["QA_Time_Hours"])))
                             @@ self.rows[i]])
         IN  IF ~({"Assignee", "Area_Module"} \subseteq self.columns)
             THEN [self |-> assigned, ret |-> Raise("KeyError")]
             ELSE [self |-> assigned,
                   ret |-> Ok([name \in GroupKeys(assigned, "Assignee") |->
                                  ColumnSum(Where(assigned, {r \in Rows(assigned) :
                                                                 r["Assignee"] = name}),
                                            "Total_Hours")])]

-----------------------------------------------------------------------------
(* The state machine *)

NoCall == [query_type |-> None, kwargs |-> <<>>]
NoResult == [status |-> "none", error |-> "", value |-> 0]

Query(query_type, kwargs) == [query_type |-> query_type, kwargs |-> kwargs]
Metric(name, params) == Query("calculate_metric", ("metric_name" :> name) @@ params)

NoSummary == <<>>

\* a SprintDataAnalyzer whose self.df is t, with no report and no load in
\* progress; loads counts the loads since.  at is the position of the get_data_summary call in progress:
\* 0 for none, n in 1..Len(SummaryLocals) before the n-th assignment, then
\* the return statement, then returned
Analyzer(t) ==
    [df |-> t, at |-> 0, locals |-> NoLocals, started |-> EmptyFrame,
     summary |-> NoSummary, loading |-> FALSE, loads |-> 0]

AtReturn == Len(SummaryLocals) + 1
Returned_ == AtReturn + 1

\* before the constructor: the caller holds a table
InitOn(tables) ==
    /\ src \in tables
    /\ df = EmptyFrame
    /\ pc = "new"
    /\ call = NoCall
    /\ result = NoResult
    /\ ran = <<>>
    /\ analyzer = Analyzer(EmptyFrame)

\* DataFrameQueryExecutor(src)
Construct ==
    /\ pc = "new"
    /\ LET o == InitExecutor(src)
       IN  /\ src' = o.caller
           /\ df' = o.self
    /\ pc' = "ready"
    /\ UNCHANGED <<call, result, ran, analyzer>>

\* executor.execute_query(c.query_type, **c.kwargs)
ExecuteQuery(c) ==
    /\ pc = "ready"
    /\ LET o == execute_query(df, c.query_type, c.kwargs)
       IN  /\ df' = o.self
           /\ result' = o.ret
           /\ ran' = o.ran
    /\ call' = c
    /\ UNCHANGED <<src, pc, analyzer>>

Executor == <<src, df, pc, call, result, ran>>

\* analyzer.get_data_summary() is called: self.df is not None
BeginSummary ==
    /\ analyzer.at = 0
    /\ analyzer' = [analyzer EXCEPT !.at = 1, !.started = analyzer.df]
    /\ UNCHANGED Executor

\* the next assignment of get_data_summary, read from self.df as it is now
AssignNext ==
    /\ analyzer.at \in 1..Len(SummaryLocals)
    /\ analyzer' = [analyzer EXCEPT
                        !.locals = AssignLocal(SummaryLocals[analyzer.at], analyzer.df,
                                               analyzer.locals),
                        !.at = analyzer.at + 1]
    /\ UNCHANGED Executor

\* the return statement of get_data_summary
ReturnStatement ==
    /\ analyzer.at = AtReturn
    /\ analyzer' = [analyzer EXCEPT !.summary = ReturnSummary(analyzer.df, analyzer.locals),
                                    !.at = Returned_]
    /\ UNCHANGED Executor

\* the caller has the summary; the analyzer is free for the next call
EndSummary ==
    /\ analyzer.at = Returned_
    /\ analyzer' = [Analyzer(analyzer.df) EXCEPT !.loading = analyzer.loading,
                                                 !.loads = analyzer.loads]
    /\ UNCHANGED Executor

\* _load_data: self.df = pd.read_csv(self.csv_path), the file holding table t
LoadRead(t, max) ==
    /\ ~analyzer.loading
    /\ analyzer.loads < max
    /\ analyzer' = [analyzer EXCEPT !.df = t, !.loading = TRUE, !.loads = analyzer.loads + 1]
    /\ UNCHANGED Executor

\* _load_data: the coercions, in place on the table self.df refers to
LoadCoerce ==
    /\ analyzer.loading
    /\ analyzer' = [analyzer EXCEPT !.df = CoerceLoaded(analyzer.df), !.loading = FALSE]
    /\ UNCHANGED Executor

\* agent.query(question), the analyzer's reports, the chart creators and the
\* LLM behaving as env says
AgentQuery(question, env) ==
    /\ call = NoCall
    /\ call' = Query("query", [question |-> question, env |-> env])
    /\ result' = query(question, env).ret
    /\ UNCHANGED <<src, df, pc, ran, analyzer>>

\* the caller has the answer
Answered ==
    /\ call.query_type = "query"
    /\ call' = NoCall
    /\ result' = NoResult
    /\ UNCHANGED <<src, df, pc, ran, analyzer>>

\* analyzer.get_sprint_summary(sprint_id)
GetSprintSummary(sprint_id) ==
    /\ call' = Query("get_sprint_summary", [sprint_id |-> sprint_id])
    /\ result' = get_sprint_summary(analyzer.df, sprint_id)
    /\ UNCHANGED <<src, df, pc, ran, analyzer>>

\* DashboardAnalyzer(src): df is the table the analyzer holds
ConstructDashboard ==
    /\ pc = "new"
    /\ LET o == DashboardAnalyzer(src)
       IN  /\ src' = o.caller
           /\ df' = o.self
    /\ pc' = "ready"
    /\ UNCHANGED <<call, result, ran, analyzer>>

\* one of the queries that read self.df
ReadDashboard(name) ==
    /\ pc = "ready"
    /\ name \in ReadingQueries
    /\ call' = Query(name, <<>>)
    /\ result' = NoResult
    /\ UNCHANGED <<src, df, pc, ran, analyzer>>

\* dashboard.get_workload_distribution()
GetWorkloadDistribution ==
    /\ pc = "ready"
    /\ LET o == get_workload_distribution(df)
       IN  /\ df' = o.self
           /\ result' = o.ret
    /\ call' = Query("get_workload_distribution", <<>>)
    /\ UNCHANGED <<src, pc, ran, analyzer>>

NextAsking(questions, envs) ==
    \/ \E question \in questions, env \in envs : AgentQuery(question, env)
    \/ Answered

\* data summaries and at most max reloads of the file, in any interleaving
NextReloading(tables, max) ==
    \/ BeginSummary
    \/ AssignNext
    \/ ReturnStatement
    \/ EndSummary
    \/ \E t \in tables : LoadRead(t, max)
    \/ LoadCoerce

NextOn(calls) ==
    \/ Construct
    \/ \E c \in calls : ExecuteQuery(c)

-----------------------------------------------------------------------------
(* Bounds: the tables the caller may hold and the calls made *)

MaxRows == 2

\* the tables of at most n rows drawn from rows
TablesOf(columns, rows, n) ==
    {MkTable(columns, r) : r \in UNION {[1..k -> rows] : k \in 0..n}}

Dated(row, date) == ("Completed_Date" :> date) @@ row

GeneralColumns == AllColumns \cup {"Completed_Date"}

GeneralRows ==
    {Dated(MkRow("SPR-001", "Done", "Story", "Low", "alice", Points(5)), Num(3)),
     Dated(MkRow("SPR-001", "To Do", "Bug", "Critical", "bob", Text("n/a")), NaN),
     Dated(MkRow("SPR-002", "Done", "Bug", "High", "alice", Text("3")), Text("2024-01-02")),
     Dated(MkRow("SPR-002", "In Progress", "Story", "High", "bob", NaN), Text("soon"))}

SprintIds == {"SPR-001", "SPR-002", "SPR-999"}

MetricNames == DOMAIN metric_calculators \cup {"not_a_real_metric", "health"}

\* the parameters each metric is called with
MetricParams(name) ==
    IF name \in {"capacity_utilization", "sprint_health", "burndown_data"}
    THEN {[sprint_id |-> sp] : sp \in SprintIds}
    ELSE IF name \in {"cycle_time_avg", "bug_resolution_rate"} THEN {<<>>}
    ELSE {<<>>} \cup {[sprint_id |-> sp] : sp \in {"SPR-001", "SPR-999"}}

GeneralCalls ==
    {Metric(name, params) : <<name, params>> \in
        UNION {{<<n, q>> : q \in MetricParams(n)} : n \in MetricNames}}
    \cup {Query("filter", [conditions |-> c]) : c \in
            {<<>>, <<Scalar("Sprint_ID", "SPR-001")>>,
             <<IsIn("Status", {"Done", "To Do"}), Compare("Story_Points", ">", Points(3))>>,
             <<Scalar("Team", "core")>>}}
    \cup {Query("aggregate", kw) : kw \in
            {<<>>, [group_by |-> <<"Sprint_ID">>],
             [aggregations |-> <<[column |-> "Story_Points", funcs |-> <<"sum", "mean">>]>>]}}
    \cup {Query("group_by", [group_columns |-> <<"Assignee">>, value_column |-> "Story_Points"])}
    \cup {Query("compare_sprints", [sprint_ids |-> <<"SPR-002", "SPR-999">>,
                                    metrics |-> <<"velocity", "team_size">>])}
    \cup {Query("trend_analysis", [metric |-> "velocity"])}
    \cup {Query("team_comparison", [metric |-> "ticket_count"])}
    \cup {Query("time_series", [date_column |-> "Completed_Date",
                                value_column |-> "Story_Points"])}
    \cup {Query("pivot", [index |-> "Assignee", columns |-> "Status",
                          values |-> "Story_Points"])}
    \cup {Query("statistical_summary", <<>>)}
    \cup {Query(qt, <<>>) : qt \in {"not_a_query", "velocity", ""}}

Init == InitOn(TablesOf(GeneralColumns, GeneralRows, MaxRows))
Next == NextOn(GeneralCalls)
Spec == Init /\ [][Next]_vars

\* Sprint health: tables of one assignee whose rows differ in status, type,
\* priority and story points
MaxHealthRows == 4

HealthRows ==
    {MkRow("SPR-001", "Done", "Story", "Low", "alice", Points(5)),
     MkRow("SPR-001", "Done", "Bug", "Critical", "alice", Points(3)),
     MkRow("SPR-001", "To Do", "Bug", "Critical", "alice", NaN),
     MkRow("SPR-001", "In Progress", "Story", "High", "alice", Points(2)),
     MkRow("SPR-001", "To Do", "Story", "Low", "alice", Points(1)),
     MkRow("SPR-002", "To Do", "Bug", "Critical", "alice", Points(1))}

HealthCalls == {Metric("sprint_health", [sprint_id |-> sp]) : sp \in SprintIds}

InitHealth == InitOn(TablesOf(AllColumns, HealthRows, MaxHealthRows))
NextHealth == NextOn(HealthCalls)
SpecHealth == InitHealth /\ [][NextHealth]_vars

\* Completion rate and velocity: rows that differ in sprint, status and story
\* points, down to 1/256 of a point
MaxRateRows == 2

RatePoints == {NaN, Num(0), Num(1), Num(3), Num(6), Points(3), Points(5)}

RateRows ==
    {MkRow(sp, st, "Story", "Low", "alice", pts) :
        sp \in {"SPR-001", "SPR-002"}, st \in {"Done", "To Do"}, pts \in RatePoints}

RateCalls ==
    {Metric("completion_rate", params) : params \in
        {<<>>, [by |-> "points"], [sprint_id |-> None, by |-> "tickets"]}
        \cup {[sprint_id |-> sp] : sp \in {"", "SPR-001", "SPR-999"}}
        \cup {[sprint_id |-> sp, by |-> "points"] : sp \in {"SPR-001", "SPR-002", "SPR-999"}}}
    \cup {Metric("velocity", params) : params \in
            {<<>>} \cup {[sprint_id |-> sp] : sp \in SprintIds}}

InitRate == InitOn(TablesOf(AllColumns, RateRows, MaxRateRows))
NextRate == NextOn(RateCalls)
SpecRate == InitRate /\ [][NextRate]_vars

\* The comparisons: rows that differ in sprint, status, assignee and points
MaxCompareRows == 2

CompareRows ==
    {MkRow(sp, st, IF st = "Done" THEN "Story" ELSE "Bug", "Low", as, pts) :
        sp \in {"SPR-001", "SPR-002"}, st \in {"Done", "To Do"},
        as \in {"alice", "bob"}, pts \in {NaN, Points(3)}}

CompareCalls ==
    {Query("compare_sprints", [sprint_ids |-> ids, metrics |-> ms]) :
        ids \in {<<>>, <<"SPR-001">>, <<"SPR-999">>, <<"SPR-001", "SPR-002">>,
                 <<"SPR-002", "SPR-001">>, <<"SPR-999", "SPR-001">>,
                 <<"SPR-001", "SPR-999">>, <<"SPR-001", "SPR-001">>},
        ms \in {<<"velocity">>, <<"completion_rate", "bug_count", "team_size">>,
                <<"burn_rate">>}}
    \cup {Query("trend_analysis", [metric |-> m]) :
            m \in {"velocity", "completion_rate", "bug_count", "avg_cycle_time", "team_size"}}
    \cup {Query("team_comparison", [metric |-> m]) :
            m \in {"velocity", "completion_rate", "ticket_count", "bug_count"}}
    \cup {Metric("not_a_real_metric", <<>>)}

InitCompare == InitOn(TablesOf(AllColumns, CompareRows, MaxCompareRows))
NextCompare == NextOn(CompareCalls)
SpecCompare == InitCompare /\ [][NextCompare]_vars

\* Work distribution: three assignees
MaxBalanceRows == 3

BalanceRows ==
    {MkRow("SPR-001", "Done", "Story", "Low", "alice", pts) : pts \in {NaN, Points(2), Points(3)}}
    \cup {MkRow("SPR-001", "Done", "Story", "Low", "bob", pts) : pts \in {NaN, Points(2)}}
    \cup {MkRow("SPR-001", "To Do", "Story", "Low", "carol", pts) : pts \in {Num(0), Points(3)}}
    \cup {MkRow("SPR-002", "Done", "Story", "Low", "alice", Points(2))}

BalanceCalls ==
    {Metric("work_distribution", params) : params \in
        {<<>>} \cup {[sprint_id |-> sp] : sp \in {"SPR-001", "SPR-999"}}}

InitBalance == InitOn(TablesOf(AllColumns, BalanceRows, MaxBalanceRows))
NextBalance == NextOn(BalanceCalls)
SpecBalance == InitBalance /\ [][NextBalance]_vars

\* Pivot
MaxPivotRows == 3

PivotRows ==
    {MkRow("SPR-001", st, "Story", "Low", as, pts) :
        as \in {"alice", "bob"}, st \in {"Done", "To Do"}, pts \in {NaN, Points(2), Points(3)}}

PivotCalls ==
    {Query("pivot", [index |-> "Assignee", columns |-> "Status", values |-> "Story_Points"])}
    \cup {Query("pivot", [index |-> "Assignee", columns |-> "Status",
                          values |-> "Story_Points", aggfunc |-> f]) :
             f \in {"mean", "count", "max"}}
    \cup {Query("pivot", [index |-> "Status", columns |-> "Team", values |-> "Story_Points"])}

InitPivot == InitOn(TablesOf(AllColumns, PivotRows, MaxPivotRows))
NextPivot == NextOn(PivotCalls)
SpecPivot == InitPivot /\ [][NextPivot]_vars

\* Filter: rows that differ in status, assignee (one missing) and story
\* points; predicate maps of up to two columns, some on columns the table
\* does not have
MaxFilterRows == 2

FilterRows ==
    {MkRow(IF st = "Done" THEN "SPR-001" ELSE "SPR-002", st, "Story", "Low", as, pts) :
        st \in {"Done", "To Do"}, as \in {"alice", NullStr}, pts \in {NaN, Points(3), Points(5)}}

\* the predicates asked for: the last two are on columns no table has
Predicates ==
    <<Scalar("Sprint_ID", "SPR-001"), Scalar("Assignee", NullStr),
      IsIn("Status", {"Done", "Blocked"}), IsIn("Story_Points", {NaN, Points(3)}),
      Compare("Story_Points", ">=", Points(5)), Compare("Story_Points", "!=", Points(3)),
      Scalar("Team", "core"), IsIn("Epic", {"E-1"})>>

\* the items of a predicate map, in insertion order: no column twice
PredicateMaps ==
    LET N == DOMAIN Predicates
    IN  {<<>>} \cup {<<Predicates[i]>> : i \in N}
        \cup {<<Predicates[ij[1]], Predicates[ij[2]]>> :
                 ij \in {p \in N \X N : Predicates[p[1]].column # Predicates[p[2]].column}}

FilterCalls == {Query("filter", [conditions |-> c]) : c \in PredicateMaps}

InitFilter == InitOn(TablesOf(AllColumns, FilterRows, MaxFilterRows))
NextFilter == NextOn(FilterCalls)
SpecFilter == InitFilter /\ [][NextFilter]_vars

\* Ungrouped aggregation: tables whose story points are missing or not
MaxAggregateRows == 2

AggregateRows ==
    {MkRow("SPR-001", st, "Story", "Low", "alice", pts) :
        st \in {"Done", "To Do"}, pts \in {NaN, Points(2), Points(3)}}

AggregateCalls ==
    {Query("aggregate", [aggregations |-> <<[column |-> "Story_Points", funcs |-> <<f>>]>>]) :
        f \in AggFunctions}
    \cup {Query("aggregate", kw) : kw \in
            {<<>>, [group_by |-> <<"Status">>],
             [aggregations |-> <<[column |-> "Story_Points", funcs |-> <<"count", "min">>],
                                 [column |-> "Cycle_Time_Days", funcs |-> <<"mean">>]>>]}}
    \cup {Query("statistical_summary", kw) : kw \in {<<>>, [columns |-> <<"Story_Points">>]}}

InitAggregate == InitOn(TablesOf(AllColumns, AggregateRows, MaxAggregateRows))
NextAggregate == NextOn(AggregateCalls)
SpecAggregate == InitAggregate /\ [][NextAggregate]_vars

\* Capacity utilisation: tables with or without the capacity and hours columns
MaxCapacityRows == 2

Hours(row, capacity, dev, qa) ==
    [Team_Capacity_Hours |-> capacity, Dev_Time_Hours |-> dev, QA_Time_Hours |-> qa] @@ row

CapacityRows ==
    {Hours(MkRow("SPR-001", "Done", "Story", "Low", "alice", Points(1)), capacity, dev, qa) :
        capacity \in {NaN, Num(0), Num(40)}, dev \in {NaN, Num(10)}, qa \in {NaN, Num(5)}}
    \cup {Hours(MkRow("SPR-002", "To Do", "Bug", "High", "bob", NaN), Num(30), Num(7), qa) :
            qa \in {NaN, Text("4")}}

CapacityColumns ==
    {AllColumns \cup hours :
        hours \in {{"Team_Capacity_Hours", "Dev_Time_Hours", "QA_Time_Hours"},
                   {"Dev_Time_Hours", "QA_Time_Hours"},
                   {"Team_Capacity_Hours", "QA_Time_Hours"},
                   {"Team_Capacity_Hours", "Dev_Time_Hours"}}}

CapacityCalls == {Metric("capacity_utilization", [sprint_id |-> sp]) : sp \in SprintIds}

InitCapacity ==
    InitOn(UNION {TablesOf(columns, CapacityRows, MaxCapacityRows) : columns \in CapacityColumns})
NextCapacity == NextOn(CapacityCalls)
SpecCapacity == InitCapacity /\ [][NextCapacity]_vars

\* Story points of a sprint: three tickets and more, some without points
MaxPointsRows == 3

PointsRows ==
    {MkRow("SPR-001", st, "Story", "Low", "alice", pts) :
        st \in {"Done", "To Do"}, pts \in {NaN, Points(5), Points(3), Points(2), Num(1)}}
    \cup {MkRow("SPR-002", "Done", "Story", "Low", "bob", Points(5)),
          MkRow("SPR-002", "To Do", "Bug", "High", "bob", NaN)}

PointsCalls ==
    {Metric("completion_rate", [sprint_id |-> sp, by |-> "points"]) :
        sp \in {"SPR-001", "SPR-999"}}
    \cup {Metric("velocity", [sprint_id |-> sp]) : sp \in {"SPR-001", "SPR-002"}}

InitPoints == InitOn(TablesOf(AllColumns, PointsRows, MaxPointsRows))
NextPoints == NextOn(PointsCalls)
SpecPoints == InitPoints /\ [][NextPoints]_vars

\* Reloads: the tables the file may hold while a data summary runs
MaxReloadRows == 2

ReloadRows ==
    {MkRow("SPR-001", "Done", "Story", "Low", "alice", Points(5)),
     MkRow("SPR-002", "To Do", "Bug", "High", "bob", NaN)}

MaxReloads == 2

ReloadTables == TablesOf(AllColumns, ReloadRows, MaxReloadRows)

InitReload ==
    /\ src = EmptyFrame
    /\ df = EmptyFrame
    /\ pc = "new"
    /\ call = NoCall
    /\ result = NoResult
    /\ ran = <<>>
    /\ analyzer \in {Analyzer(CoerceLoaded(t)) : t \in ReloadTables}
NextReload == NextReloading(ReloadTables, MaxReloads)
SpecReload == InitReload /\ [][NextReload]_vars

\* Questions to the agent, and what may go wrong while one is answered
MaxFailures == 2

Question(words, sprint_id) == [is_str |-> TRUE, words |-> words, sprint_id |-> sprint_id]

Questions ==
    {Question({}, None),
     Question({"show me", "chart", "bug"}, None),
     Question({"velocity", "trend"}, None),
     Question({"team", "performance", "chart"}, None),
     Question({"summary", "sprint", "spr-"}, "SPR-001"),
     Question({"sprint", "overview"}, None),
     Question({"overall", "status", "chart"}, None),
     Question({"priority", "graph"}, None),
     [is_str |-> FALSE, words |-> {}, sprint_id |-> None]}

Reports == {"get_data_summary", "get_sprint_summary", "get_team_performance",
            "get_bug_analysis"}

Charts == DOMAIN ChartAnswer

\* at most MaxFailures of the reports, the chart creators and the LLM fail
Envs ==
    {[raises |-> failing \ {"no bugs", "no rows"},
      empty |-> (IF "no bugs" \in failing THEN {"bug"} ELSE {})
                \cup (IF "no rows" \in failing THEN Charts ELSE {})] :
        failing \in {f \in SUBSET (Reports \cup Charts \cup {"llm", "no bugs", "no rows"}) :
                        Cardinality(f) <= MaxFailures}}

InitAgent == InitOn({EmptyFrame})
NextAgent == NextAsking(Questions, Envs)
SpecAgent == InitAgent /\ [][NextAgent]_vars

\* Burndown: Done tickets completed on different days, in any table order,
\* some without points or without a completion date
MaxBurnRows == 3

Sprinted(row, completed, start, end) ==
    [Completed_Date |-> completed, Sprint_Start |-> start, Sprint_End |-> end] @@ row

BurnRows ==
    {Sprinted(MkRow("SPR-001", "Done", "Story", "Low", "alice", pts), completed, Num(1), Num(9)) :
        pts \in {NaN, Points(2), Points(3)}, completed \in {NaN, Num(2), Num(5)}}
    \cup {Sprinted(MkRow("SPR-001", "To Do", "Bug", "High", "bob", Points(3)), NaN, Num(1), Num(9)),
          Sprinted(MkRow("SPR-001", "Done", "Story", "Low", "bob", Points(2)), Num(2), NaN, Num(9)),
          Sprinted(MkRow("SPR-001", "Done", "Story", "Low", "bob", Points(2)), Num(2), Num(1), NaN),
          Sprinted(MkRow("SPR-002", "Done", "Story", "Low", "bob", Points(3)), Num(5), Num(1), Num(9))}

BurnColumns == AllColumns \cup {"Sprint_Start", "Sprint_End"}

BurnCalls == {Metric("burndown_data", [sprint_id |-> sp]) : sp \in SprintIds}

InitBurn ==
    InitOn(UNION {TablesOf(columns, BurnRows, MaxBurnRows) :
                     columns \in {BurnColumns, BurnColumns \cup {"Completed_Date"}}})
NextBurn == NextOn(BurnCalls)
SpecBurn == InitBurn /\ [][NextBurn]_vars

\* Cycle times: tickets of two statuses and two types, some without a cycle time
MaxCycleRows == 3

Timed(row, days) == [Cycle_Time_Days |-> days] @@ row

CycleRows ==
    {Timed(MkRow("SPR-001", st, ty, "Low", "alice", Points(1)), days) :
        st \in {"Done", "To Do"}, ty \in {"Story", "Bug"},
        days \in {NaN, Num(1), Points(2)}}

CycleCalls ==
    {Metric("cycle_time_avg", params) : params \in
        {<<>>, [status |-> "To Do"], [status |-> None], [status |-> "Blocked"],
         [ticket_type |-> "Bug"], [status |-> "", ticket_type |-> "Story"],
         [status |-> "Done", ticket_type |-> "Task"]}}

InitCycle ==
    InitOn(UNION {TablesOf(columns, CycleRows, MaxCycleRows) :
                     columns \in {AllColumns, AllColumns \cup {"Cycle_Time_Days"}}})
NextCycle == NextOn(CycleCalls)
SpecCycle == InitCycle /\ [][NextCycle]_vars

\* Sprint summaries: a sprint whose tickets have a capacity and logged hours,
\* missing, zero or not, and a ticket without assignee
MaxSprintRows == 2

SprintRows ==
    {Hours(MkRow("SPR-001", "Done", "Story", "Low", "alice", Points(1)), capacity, dev, qa) :
        capacity \in {NaN, Num(0), Num(40)}, dev \in {NaN, Num(0), Num(10)},
        qa \in {NaN, Num(5)}}
    \cup {Hours(MkRow("SPR-002", "To Do", "Bug", "High", NullStr, NaN), Num(30), Num(7), Num(2))}

SprintCalls == {None, "SPR-001", "SPR-002", "SPR-999"}

InitSprint ==
    /\ src = EmptyFrame
    /\ df = EmptyFrame
    /\ pc = "new"
    /\ call = NoCall
    /\ result = NoResult
    /\ ran = <<>>
    /\ analyzer \in {Analyzer(CoerceLoaded(t)) :
                        t \in UNION {TablesOf(columns, SprintRows, MaxSprintRows) :
                                        columns \in CapacityColumns}}
NextSprint == \E sprint_id \in SprintCalls : GetSprintSummary(sprint_id)
SpecSprint == InitSprint /\ [][NextSprint]_vars

\* Trends: tickets of two sprints or of none, with or without assignee
MaxTrendRows == 2

TrendRows ==
    {MkRow(sp, st, "Story", "Low", as, pts) :
        sp \in {"SPR-001", "SPR-002", NullStr}, st \in {"Done", "To Do"},
        as \in {"alice", NullStr}, pts \in {NaN, Points(3)}}

TrendCalls ==
    {Query("trend_analysis", [metric |-> m]) :
        m \in {"velocity", "completion_rate", "bug_count", "avg_cycle_time", "team_size"}}
    \cup {Query("trend_analysis", [metric |-> "velocity", group_by |-> g]) :
            g \in {"Assignee", "Status", "Team"}}
    \cup {Metric("team_productivity", params) :
            params \in {<<>>, [sprint_id |-> "SPR-001"], [sprint_id |-> "SPR-999"]}}

InitTrend == InitOn(TablesOf(AllColumns, TrendRows, MaxTrendRows))
NextTrend == NextOn(TrendCalls)
SpecTrend == InitTrend /\ [][NextTrend]_vars

\* Dashboards: tickets with logged hours, some missing or still text, of
\* tables with or without the hours columns
MaxDashboardRows == 2

DashboardRows ==
    {("Area_Module" :> "api")
     @@ Hours(MkRow("SPR-001", "Done", "Story", "Low", as, Points(1)), Num(40), dev, qa) :
        as \in {"alice", "bob"}, dev \in {NaN, Num(10)}, qa \in {NaN, Num(5), Text("3")}}

DashboardColumns ==
    {AllColumns \cup {"Team_Capacity_Hours", "Area_Module"} \cup hours :
        hours \in {{"Dev_Time_Hours", "QA_Time_Hours"}, {"Dev_Time_Hours"}}}
    \cup {AllColumns \cup {"Dev_Time_Hours", "QA_Time_Hours"}}

InitDashboard ==
    InitOn(UNION {TablesOf(columns, DashboardRows, MaxDashboardRows) :
                     columns \in DashboardColumns})
NextDashboard ==
    \/ ConstructDashboard
    \/ \E name \in ReadingQueries : ReadDashboard(name)
    \/ GetWorkloadDistribution
SpecDashboard == InitDashboard /\ [][NextDashboard]_vars

-----------------------------------------------------------------------------
(* Properties *)

\* the ten metric names of the catalogue
Catalogue ==
    {"completion_rate", "velocity", "capacity_utilization", "cycle_time_avg",
     "bug_resolution_rate", "team_productivity", "sprint_health", "work_distribution",
     "quality_metrics", "burndown_data"}

IsMetricCall == call.query_type = "calculate_metric"

IsMetric(name) == IsMetricCall /\ call.kwargs["metric_name"] = name

\* the parameters of the metric last asked for
Params == Without(call.kwargs, "metric_name")

\* the rows the metric last asked for was computed over
Partition == SprintPartition(df, Get(Params, "sprint_id", None))

\* C1: the health_score returned by calculate_metric('sprint_health', sprint_id)
\* lies between 0 and 100 (held in hundredths), for every table and sprint_id.
C1_HealthScoreBounds ==
    IsMetric("sprint_health")
        => /\ result.status = "ok"
           /\ result.value.health_score >= 0
           /\ result.value.health_score <= 10000

\* the deductions exceed 100 and the score is held at 0
C1_Witness ==
    /\ IsMetric("sprint_health")
    /\ result.status = "ok"
    /\ HealthScoreRaw(Partition).num < 0
    /\ result.value.health_score = 0

\* C2: completion_rate returns a value between 0 and 100 (held in
\* hundredths) in both modes, and exactly 0 when the partition has no rows or,
\* by points, its story-point total is 0.
C2_CompletionRateBounds ==
    IsMetric("completion_rate")
        => /\ result.status = "ok"
           /\ result.value >= 0
           /\ result.value <= 10000
           /\ Len0(Partition) = 0 => result.value = 0
           /\ (Get(Params, "by", "tickets") # "tickets"
                  /\ ColumnSum(Partition, "Story_Points") = 0) => result.value = 0

\* a partition with rows, one of them Done, and a story-point total of 0
C2_Witness ==
    /\ IsMetric("completion_rate")
    /\ Get(Params, "by", "tickets") = "points"
    /\ Len0(DoneRows(Partition)) > 0
    /\ ColumnSum(Partition, "Story_Points") = 0
    /\ result.value = 0

\* the caller's table with one more ticket
AddTicket(t, row) == MkTable(t.columns, Append(t.rows, row))

\* the velocity last asked for, asked of an executor built on the table with
\* one more ticket
VelocityAfter(row) == _calc_velocity(InitExecutor(AddTicket(src, row)).self, Params)

IsVelocityOfSprint ==
    /\ IsMetric("velocity")
    /\ Truthy(Get(Params, "sprint_id", None))
    /\ result.status = "ok"

IsDoneWork(row, sprint_id) ==
    /\ row["Sprint_ID"] = sprint_id
    /\ row["Status"] = "Done"
    /\ IsNum(row["Story_Points"])
    /\ row["Story_Points"].v > 0

\* C3 (as stated): adding one Done ticket with story_points > 0 to sprint s
\* makes velocity(s) strictly larger; adding a ticket that is not Done, or one
\* of another sprint, leaves velocity(s) unchanged.
C3_VelocityStrictlyMonotone ==
    IsVelocityOfSprint =>
        \A row \in RateRows :
            /\ IsDoneWork(row, Params["sprint_id"]) => VelocityAfter(row) > result.value
            /\ (row["Status"] # "Done" \/ row["Sprint_ID"] # Params["sprint_id"])
                  => VelocityAfter(row) = result.value

\* C3 (amended): adding one Done ticket with story_points > 0 to sprint s never
\* lowers velocity(s), and makes it strictly larger when the ticket has at
\* least 0.02 story points (velocity is rounded to two decimals); adding a
\* ticket that is not Done, or one of another sprint, leaves velocity(s)
\* unchanged.
C3_VelocityMonotone ==
    IsVelocityOfSprint =>
        \A row \in RateRows :
            /\ IsDoneWork(row, Params["sprint_id"])
                  => /\ VelocityAfter(row) >= result.value
                     /\ 100 * row["Story_Points"].v >= 2 * PointScale
                           => VelocityAfter(row) > result.value
            /\ (row["Status"] # "Done" \/ row["Sprint_ID"] # Params["sprint_id"])
                  => VelocityAfter(row) = result.value

\* the velocity of a sprint with Done work, which a Done ticket of less than
\* 0.02 story points leaves unchanged
C3_Witness ==
    /\ IsVelocityOfSprint
    /\ result.value > 0
    /\ \E row \in RateRows :
          /\ IsDoneWork(row, Params["sprint_id"])
          /\ VelocityAfter(row) = result.value

\* C4: calculate_metric with a name outside the catalogue raises the
\* unknown-metric error and runs no calculator: the only method that ran is
\* _calculate_metric itself.
C4_UnknownMetricRaises ==
    (IsMetricCall /\ call.kwargs["metric_name"] \notin Catalogue)
        => /\ result = Raise("ValueError: Unknown metric")
           /\ ran = <<"_calculate_metric">>

C4_Witness ==
    /\ IsMetricCall
    /\ call.kwargs["metric_name"] = "not_a_real_metric"
    /\ result.status = "error"

\* the metric names each comparison has a branch for
SupportedMetrics ==
    [compare_sprints |-> {"velocity", "completion_rate", "bug_count", "team_size",
                          "avg_cycle_time"},
     trend_analysis |-> {"velocity", "completion_rate", "bug_count", "avg_cycle_time"},
     team_comparison |-> {"velocity", "completion_rate", "avg_cycle_time", "ticket_count"}]

\* the metric names the last call asked for
RequestedMetrics ==
    IF call.query_type = "compare_sprints"
    THEN {call.kwargs["metrics"][i] : i \in 1..Len(call.kwargs["metrics"])}
    ELSE IF call.query_type \in {"trend_analysis", "team_comparison"}
    THEN {call.kwargs["metric"]}
    ELSE {}

\* C5: every operation that takes a metric name rejects a name outside its
\* supported set: the call raises, it never returns a normal result.
C5_UnsupportedMetricRejected ==
    /\ (call.query_type \in DOMAIN SupportedMetrics
           /\ ~(RequestedMetrics \subseteq SupportedMetrics[call.query_type]))
          => result.status = "error"
    /\ (IsMetricCall /\ call.kwargs["metric_name"] \notin Catalogue)
          => result.status = "error"

\* C6: execute_query with an unregistered query type raises the unknown-query
\* error before any method runs; with a registered one the first (and outer)
\* method that runs is the one registered under that name.
C6_DispatchByName ==
    call # NoCall =>
        IF call.query_type \in DOMAIN query_methods
        THEN ran # <<>> /\ Head(ran) = query_methods[call.query_type]
        ELSE result = Raise("ValueError: Unknown query type") /\ ran = <<>>

C6_Witness ==
    /\ call.query_type = "not_a_query"
    /\ result = Raise("ValueError: Unknown query type")
    /\ ran = <<>>

\* the requested sprint has at least one row
HasRows(sprint_id) == \E i \in 1..Len0(df) : df.rows[i]["Sprint_ID"] = sprint_id

\* C7: compare_sprints does not raise, and its result has one row for each
\* requested id that has at least one row, in the order requested (so no row
\* when no requested id has rows).
C7_CompareSkipsMissing ==
    call.query_type = "compare_sprints"
        => /\ result.status = "ok"
           /\ [i \in 1..Len(result.value) |-> result.value[i]["Sprint_ID"]]
                 = SelectSeq(call.kwargs["sprint_ids"], HasRows)

\* a sprint without rows was requested ahead of one with rows
C7_Witness ==
    /\ call.query_type = "compare_sprints"
    /\ Len(call.kwargs["sprint_ids"]) = 2
    /\ ~HasRows(call.kwargs["sprint_ids"][1])
    /\ HasRows(call.kwargs["sprint_ids"][2])
    /\ Len(result.value) = 1

\* C8: work_distribution returns a balance_score between 0 and 100 (held in
\* hundredths), and 100 when every assignee of the partition has the same
\* story-point total.
C8_BalanceScore ==
    IsMetric("work_distribution")
        => LET totals == ByAssignee(Partition)
           IN  /\ result.status = "ok"
               /\ result.value.balance_score >= 0
               /\ result.value.balance_score <= 10000
               /\ (\A a, b \in DOMAIN totals : totals[a] = totals[b])
                     => result.value.balance_score = 10000

\* several assignees with the same positive total
C8_Witness ==
    /\ IsMetric("work_distribution")
    /\ LET totals == ByAssignee(Partition)
       IN  /\ Cardinality(DOMAIN totals) > 1
           /\ \A a, b \in DOMAIN totals : totals[a] = totals[b] /\ totals[a] > 0
    /\ result.value.balance_score = 10000

\* the rows of the table that match a cell of the last pivot
Matching(key) ==
    Where(df, {r \in Rows(df) : /\ r[call.kwargs["index"]] = key[1]
                                 /\ r[call.kwargs["columns"]] = key[2]})

\* the aggregation the last pivot asked for, over the rows that match a cell
CellAggregate(key) ==
    Aggregate(Matching(key), call.kwargs["values"], Get(call.kwargs, "aggfunc", "sum"))

PivotKeys == result.value.index \X result.value.columns

\* C9 (as stated): every cell of the pivot with no matching row holds 0, and
\* every cell with matching rows holds the aggregation of those rows.
C9_PivotCellsAggregate ==
    call.query_type = "pivot" =>
        \A key \in PivotKeys :
            result.value.cells[key] =
                IF Len0(Matching(key)) = 0 THEN Zero ELSE CellAggregate(key)

\* C9 (amended): every cell of the pivot with no matching row holds 0, never
\* NaN; a cell with matching rows holds the aggregation of those rows when that
\* is defined, and 0 when it is not (the mean, min, max or median of rows whose
\* values are all missing).
C9_PivotCells ==
    call.query_type = "pivot" =>
        /\ result.status = "ok"
        /\ \A key \in PivotKeys :
              /\ ~IsNaNValue(result.value.cells[key])
              /\ result.value.cells[key] =
                    IF Len0(Matching(key)) = 0 \/ IsNaNValue(CellAggregate(key))
                    THEN Zero ELSE CellAggregate(key)

\* a cell of the pivot that no row matches
C9_Witness ==
    /\ call.query_type = "pivot"
    /\ \E key \in PivotKeys :
          /\ Len0(Matching(key)) = 0
          /\ result.value.cells[key] = Zero

\* C10: no step changes the caller's table, the constructor included, and once
\* the executor is constructed no execute_query call changes the table it
\* holds, whether the call returns or raises.
C10_TablesUnchanged ==
    [][src' = src /\ (pc = "ready" => df' = df)]_vars

\* a time series was computed over a table the constructor had to coerce
C10_Witness ==
    /\ pc = "ready"
    /\ call.query_type = "time_series"
    /\ result.status = "ok"
    /\ result.value # <<>>
    /\ df # src
    /\ df = EnsureDataTypes(src)

\* C11: execute_query is deterministic and history-independent: whatever calls
\* were made before it, the output of the last call is the output the same
\* call gives on an executor freshly constructed on the same table.
C11_HistoryIndependent ==
    (pc = "ready" /\ call # NoCall)
        => result = execute_query(InitExecutor(src).self, call.query_type, call.kwargs).ret

\* a filter answered with a part of the table, which the executor still
\* holds whole
C11_Witness ==
    /\ call.query_type = "filter"
    /\ result.status = "ok"
    /\ Len0(result.value) > 0
    /\ Len0(result.value) < Len0(df)
    /\ df = InitExecutor(src).self

\* a missing value in the column: NaN in a numeric one, the null string otherwise
IsNull(col, cell) == IF col \in NumericColumns THEN ~IsNum(cell) ELSE cell = NullStr

\* the predicate holds on the row: equality and the ordering operators hold
\* of no missing value, != of every missing value, membership is membership
Holds(row, cond) ==
    LET col == cond.column
        cell == row[col]
        value == ValueOf(cond)
        known == ~IsNull(col, cell) /\ ~IsNull(col, value)
    IN  CASE cond.kind = "scalar" -> known /\ cell = value
          [] cond.kind = "list" -> \E lit \in cond.value : cell = Raw(col, lit)
          [] cond.kind = "dict" ->
                CASE cond.operator = "==" -> known /\ cell = value
                  [] cond.operator = "!=" -> ~(known /\ cell = value)
                  [] cond.operator = ">" -> known /\ cell.v > value.v
                  [] cond.operator = "<" -> known /\ cell.v < value.v
                  [] cond.operator = ">=" -> known /\ cell.v >= value.v
                  [] cond.operator = "<=" -> known /\ cell.v <= value.v

\* the row satisfies every predicate of the map on a column the table has
SatisfiesAll(row, conditions) ==
    \A i \in 1..Len(conditions) :
        conditions[i].column \in df.columns => Holds(row, conditions[i])

Reverse(seq) == [i \in 1..Len(seq) |-> seq[Len(seq) + 1 - i]]

\* C12: filter returns exactly the rows of the table that satisfy every
\* predicate of the map, in the original order and with all columns; the
\* result does not depend on the order of the predicates, and filtering the
\* result again with the same map changes nothing.
C12_FilterExact ==
    call.query_type = "filter" =>
        LET conditions == call.kwargs["conditions"]
        IN  /\ result.status = "ok"
            /\ result.value.columns = df.columns
            /\ result.value.rows =
                  SelectSeq(df.rows, LAMBDA row : SatisfiesAll(row, conditions))
            /\ _filter_data(df, Reverse(conditions)) = result.value
            /\ _filter_data(result.value, conditions) = result.value
            /\ (\A i \in 1..Len(conditions) : conditions[i].kind # "dict")
                  => get_filtered_data(df, conditions) = result.value

\* two predicates on two columns, each met by a row the other rejects, kept
\* one row of several
C12_Witness ==
    /\ call.query_type = "filter"
    /\ LET conditions == call.kwargs["conditions"]
       IN  /\ Len(conditions) = 2
           /\ \A i \in 1..2 : conditions[i].column \in df.columns
           /\ \E j, k \in 1..Len0(df) :
                 /\ Holds(df.rows[j], conditions[1]) /\ ~Holds(df.rows[j], conditions[2])
                 /\ Holds(df.rows[k], conditions[2]) /\ ~Holds(df.rows[k], conditions[1])
    /\ Len0(result.value) = 0

\* the predicates of the map on columns the table has
KnownColumnsOnly(conditions) ==
    SelectSeq(conditions, LAMBDA cond : cond.column \in df.columns)

\* C13: a predicate on a column the table does not have is a no-op in filter:
\* the call does not raise and returns what the map without those predicates
\* returns, the whole table when no predicate is left.
C13_UnknownColumnsIgnored ==
    call.query_type = "filter" =>
        LET conditions == call.kwargs["conditions"]
            known == KnownColumnsOnly(conditions)
        IN  /\ result = Ok(_filter_data(df, known))
            /\ known = <<>> => result.value = df
            /\ (\A i \in 1..Len(conditions) : conditions[i].kind # "dict")
                  => get_filtered_data(df, conditions) = get_filtered_data(df, known)

\* a map of one predicate on an unknown column and one that rejects a row
C13_Witness ==
    /\ call.query_type = "filter"
    /\ Len(call.kwargs["conditions"]) = 2
    /\ Len(KnownColumnsOnly(call.kwargs["conditions"])) = 1
    /\ result.status = "ok"
    /\ Len0(result.value) > 0
    /\ Len0(result.value) < Len0(df)

\* the last call was an ungrouped aggregate with an aggregations dict
IsUngroupedAggregate ==
    /\ call.query_type = "aggregate"
    /\ Get(call.kwargs, "group_by", <<>>) = <<>>
    /\ Get(call.kwargs, "aggregations", <<>>) # <<>>

\* C14: an ungrouped aggregate over a column with no value (an empty table or
\* an all-null column) does not raise, returns 0 for sum and count, and for
\* mean, median, std, min and max returns an absent value that is not NaN.
C14_AggregateOfNothing ==
    IsUngroupedAggregate =>
        /\ result.status = "ok"
        /\ \A pr \in DOMAIN result.value :
              CountCells(df.rows, pr[1]) = 0 =>
                  IF pr[2] \in {"sum", "count"} THEN result.value[pr] = Zero
                  ELSE ~IsNaNValue(result.value[pr])

\* sum of the hours of a column over the rows, 0 for a column the table lacks
HoursOf(t, col) == IF col \in t.columns THEN ColumnSum(t, col) ELSE 0

\* the capacity of a sprint is missing: no rows, no capacity column, or a
\* capacity that is null or zero
CapacityMissing(t) ==
    \/ Len0(t) = 0
    \/ "Team_Capacity_Hours" \notin t.columns
    \/ ~IsNum(t.rows[1]["Team_Capacity_Hours"])
    \/ t.rows[1]["Team_Capacity_Hours"].v = 0

\* C15: capacity_utilization(sprint) returns None, not 0 and not an exception,
\* exactly when the sprint has no rows or its capacity is absent, null or zero;
\* otherwise it returns (dev hours + qa hours) / capacity * 100 (held in
\* hundredths), also when an hours column is absent or all null.
C15_CapacityUtilization ==
    IsMetric("capacity_utilization") =>
        IF CapacityMissing(Partition) THEN result = Ok(None)
        ELSE result = Ok(Round2(100 * (HoursOf(Partition, "Dev_Time_Hours")
                                       + HoursOf(Partition, "QA_Time_Hours")),
                                Partition.rows[1]["Team_Capacity_Hours"].v))

\* C16: calculate_metric('sprint_health', sprint_id) for a sprint_id that no
\* row of the table carries ends in an error, not in a health record.
C16_HealthOfNoRowsIsError ==
    (IsMetric("sprint_health") /\ ~HasRows(Params["sprint_id"])) => result.status = "error"

\* the number of rows of the partition that satisfy the row set
CountIn(t, mask) == Cardinality({i \in 1..Len0(t) : t.rows[i] \in mask})

\* the four deductions of the health score of a partition, each as the
\* fraction n/d, and the score they leave, in hundredths
Deductions(t) ==
    LET total == SumCells(t.rows, "Story_Points")
        done == SumCells(SelectSeq(t.rows, LAMBDA r : r["Status"] = "Done"), "Story_Points")
        todo == CountIn(t, {r \in Rows(t) : r["Status"] = "To Do"})
        rate == IF total > 0 THEN [n |-> 100 * done, d |-> total] ELSE [n |-> 0, d |-> 1]
        todo_pct == IF Len0(t) > 0 THEN [n |-> 100 * todo, d |-> Len0(t)]
                    ELSE [n |-> 0, d |-> 1]
    IN  [completion |-> IF 70 * rate.d > rate.n
                        THEN [n |-> 70 * rate.d - rate.n, d |-> 2 * rate.d]
                        ELSE [n |-> 0, d |-> 1],
         bugs |-> [n |-> 10 * CountIn(t, {r \in Rows(t) : r["Type"] = "Bug"
                                                          /\ r["Priority"] = "Critical"}),
                   d |-> 1],
         high |-> [n |-> 5 * CountIn(t, {r \in Rows(t) : r["Priority"] = "High"
                                                         /\ r["Status"] # "Done"}),
                   d |-> 1],
         todo |-> IF todo_pct.n > 30 * todo_pct.d
                  THEN [n |-> todo_pct.n - 30 * todo_pct.d, d |-> 2 * todo_pct.d]
                  ELSE [n |-> 0, d |-> 1]]

\* 100 minus the four deductions, as the fraction n/d
Unclamped(t) ==
    LET x == Deductions(t)
        d == x.completion.d * x.todo.d
    IN  [n |-> 100 * d - x.completion.n * x.todo.d - (x.bugs.n + x.high.n) * d
               - x.todo.n * x.completion.d,
         d |-> d]

\* C17: the health score is 100 minus the completion, critical-bug,
\* high-priority and To Do deductions, held within 0..100 (in hundredths, after
\* rounding to two decimals); every deduction is non-negative, so the score
\* before the clamp never exceeds 100.
C17_HealthScoreFormula ==
    IsMetric("sprint_health") =>
        LET x == Deductions(Partition)
            raw == Unclamped(Partition)
            score == HealthScoreRaw(Partition)
        IN  /\ result.status = "ok"
            /\ \A k \in DOMAIN x : x[k].n >= 0 /\ x[k].d > 0
            /\ raw.n <= 100 * raw.d
            /\ Rat(score.num, score.den) = Rat(raw.n, raw.d)
            /\ result.value.health_score
                   = Max(0, Min(10000, RoundHalfEven(100 * raw.n, raw.d)))

\* every deduction is taken and the score lies strictly between 0 and 100
C17_Witness ==
    /\ IsMetric("sprint_health")
    /\ result.status = "ok"
    /\ \A k \in DOMAIN Deductions(Partition) : Deductions(Partition)[k].n > 0
    /\ result.value.health_score > 0
    /\ result.value.health_score < 10000
    /\ Len0(Partition) < Len0(df)

\* the story points of the tickets of a sprint in the given statuses, a
\* ticket without story points counting for nothing (units of 1/256 point)
RECURSIVE StoryPoints(_, _, _)
StoryPoints(rows, sprint_id, statuses) ==
    IF rows = <<>> THEN 0
    ELSE LET row == Head(rows)
         IN  (IF /\ row["Sprint_ID"] = sprint_id
                 /\ row["Status"] \in statuses
                 /\ row["Story_Points"] # NaN
              THEN row["Story_Points"].v ELSE 0)
             + StoryPoints(Tail(rows), sprint_id, statuses)

\* the statuses and the story points of the tickets of a sprint, in order
TicketsOf(sprint_id) ==
    LET rows == SelectSeq(df.rows, LAMBDA row : row["Sprint_ID"] = sprint_id)
    IN  [i \in 1..Len(rows) |-> <<rows[i]["Story_Points"], rows[i]["Status"]>>]

\* C18: for a sprint, completion_rate by points is the story points of its
\* Done tickets over the story points of all its tickets, times 100, and
\* velocity is the story points of its Done tickets, tickets without story
\* points left out of both sums (values as returned: two decimals, and a rate
\* of 0 for a sprint whose points sum to 0).
C18_RateAndVelocityByPoints ==
    LET sprint_id == Params["sprint_id"]
        done == StoryPoints(df.rows, sprint_id, {"Done"})
        total == StoryPoints(df.rows, sprint_id, {row["Status"] : row \in Rows(df)})
    IN  /\ (IsMetric("completion_rate") /\ Get(Params, "by", "tickets") = "points")
               => result = Ok(IF total > 0 THEN RoundHalfEven(100 * 100 * done, total) ELSE 0)
        /\ IsMetric("velocity") => result = Ok(RoundHalfEven(100 * done, PointScale))

\* points [5, 3, 2] with statuses [Done, Done, To Do] give 80.0, and 8 as the
\* velocity of the same sprint
C18_Witness ==
    /\ IsMetric("completion_rate")
    /\ TicketsOf(Params["sprint_id"])
           = <<<<Points(5), "Done">>, <<Points(3), "Done">>, <<Points(2), "To Do">>>>
    /\ result = Ok(8000)
    /\ execute_query(df, "calculate_metric",
                     [metric_name |-> "velocity", sprint_id |-> Params["sprint_id"]]).ret
           = Ok(800)

\* C19: a data summary that the analyzer returns was computed from the single
\* table self.df referred to when the call began, also when the table was
\* reloaded while the call was in progress.
C19_SingleSnapshot ==
    analyzer.at = Returned_ => analyzer.summary = get_data_summary(analyzer.started)

IsQuery == call.query_type = "query"

\* a text: the sequence of the strings it was concatenated from
IsText(x) == x \in Seq(STRING)

\* the calls that raised while the last question was answered
RaisedInQuery == query(call.kwargs.question, call.kwargs.env).raised

\* what query returns when it has caught an exception
ErrorReply == [answer |-> QueryError, charts |-> <<>>]

\* C20 as stated: query raises nothing and returns an answer text and a list
\* of charts; it returns the direct answer when the LLM call failed, and the
\* fixed error message with no charts when any other step failed.
C20_QueryErrorOnAnyFailure ==
    IsQuery =>
        /\ result.status = "ok"
        /\ IsText(result.value.answer)
        /\ result.value.charts \in Seq(Charts)
        /\ "llm" \in RaisedInQuery
               => result = _direct_query(call.kwargs.question, call.kwargs.env).ret
        /\ ("llm" \notin RaisedInQuery /\ RaisedInQuery # {}) => result.value = ErrorReply

\* C20: query raises nothing and returns an answer text and a list of charts.
\* When the LLM call failed the result is that of _direct_query, which is its
\* own error message without charts if a step of it failed.  query's fixed
\* error message without charts is returned exactly when the question is not
\* a string or the data lookup and the data summary that stands in for it
\* both failed; a failed chart or a failed lookup that the data summary
\* replaced leaves the LLM's answer.
C20_QueryAlwaysAnswers ==
    IsQuery =>
        LET question == call.kwargs.question
            env == call.kwargs.env
            direct == _direct_query(question, env)
            lost == ~question.is_str
                    \/ /\ "get_data_summary" \in env.raises
                       /\ _get_relevant_data(question, env).raised # {}
        IN  /\ result.status = "ok"
            /\ IsText(result.value.answer)
            /\ result.value.charts \in Seq(Charts)
            /\ "llm" \in RaisedInQuery =>
                  /\ result = direct.ret
                  /\ direct.raised # {}
                         => result.value = [answer |-> DirectError, charts |-> <<>>]
            /\ result.value = ErrorReply <=> lost
            /\ ("llm" \notin RaisedInQuery /\ ~lost) => result.value.answer[1] = "llm.invoke"

\* a chart could not be made, the LLM answered, and its answer is returned
C20_Witness ==
    /\ IsQuery
    /\ RaisedInQuery \cap Charts # {}
    /\ "llm" \notin RaisedInQuery
    /\ result.status = "ok"
    /\ result.value.answer[1] = "llm.invoke"
    /\ result.value # ErrorReply

\* calculate_metric(name, sprint_id=sprint_id) on the executor's table, the
\* other parameters left at their defaults
MetricOfSprint(name, sprint_id) ==
    execute_query(df, "calculate_metric", [metric_name |-> name, sprint_id |-> sprint_id]).ret

\* C21: for every sprint that has rows, the velocity, the completion rate and
\* the average cycle time that compare_sprints reports are the values that
\* calculate_metric returns for that sprint with default parameters (a
\* velocity is held in units of 1/256 by compare_sprints and in hundredths by
\* calculate_metric).
C21_CompareAgreesWithMetrics ==
    (call.query_type = "compare_sprints" /\ result.status = "ok") =>
        \A i \in 1..Len(result.value) :
            LET row == result.value[i]
                sprint_id == row["Sprint_ID"]
            IN  /\ "Velocity" \in DOMAIN row =>
                      /\ MetricOfSprint("velocity", sprint_id).status = "ok"
                      /\ 100 * row["Velocity"]
                             = PointScale * MetricOfSprint("velocity", sprint_id).value
                /\ "Completion_Rate" \in DOMAIN row =>
                      MetricOfSprint("completion_rate", sprint_id)
                          = Ok(row["Completion_Rate"])
                /\ "Avg_Cycle_Time" \in DOMAIN row =>
                      execute_query(Where(df, {r \in Rows(df) : r["Sprint_ID"] = sprint_id}),
                                    "calculate_metric", [metric_name |-> "cycle_time_avg"]).ret
                          = Ok(IF IsNum(row["Avg_Cycle_Time"]) THEN row["Avg_Cycle_Time"].v
                               ELSE -1)

\* the Done tickets of the partition that have a completion date
Completed(t) ==
    IF "Completed_Date" \in t.columns
    THEN SelectSeq(t.rows, LAMBDA row : row["Status"] = "Done" /\ row["Completed_Date"] # NaN)
    ELSE <<>>

\* the story points of all the tickets of the partition
TotalPoints(t) == Num(SumCells(t.rows, "Story_Points"))

\* the sprint of the partition has no rows, or no start or no end
NoSprintDates(t) ==
    \/ Len0(t) = 0
    \/ t.rows[1]["Sprint_Start"] = NaN
    \/ t.rows[1]["Sprint_End"] = NaN

\* a > b for two numbers; no order with a missing one
Greater(a, b) == IsNum(a) /\ IsNum(b) /\ a.v > b.v

\* C22: burndown(sprint) is empty when the sprint has no rows or its start or
\* end is null; otherwise it has one entry per Done ticket that has a
\* completion date, the dates never decrease, remaining_points never
\* increases, and the first entry's remaining_points is the sprint's total
\* story points minus the points of the ticket completed first.
C22_BurndownSeries ==
    IsMetric("burndown_data") =>
        /\ result.status = "ok"
        /\ LET series == result.value
               tickets == Completed(Partition)
           IN  IF NoSprintDates(Partition) THEN series = <<>>
               ELSE /\ Len(series) = Len(tickets)
                    /\ \A i \in 1..Len(series) - 1 :
                          /\ series[i].date <= series[i + 1].date
                          /\ ~Greater(series[i + 1].remaining_points, series[i].remaining_points)
                    /\ series # <<>> =>
                          \E i \in 1..Len(tickets) :
                              /\ \A j \in 1..Len(tickets) :
                                    tickets[i]["Completed_Date"].v <= tickets[j]["Completed_Date"].v
                              /\ series[1].date = tickets[i]["Completed_Date"].v
                              /\ series[1].remaining_points
                                     = Minus(TotalPoints(Partition), tickets[i]["Story_Points"])

\* three tickets completed on two days, the later one first in the table, and
\* the remaining points go down
C22_Witness ==
    /\ IsMetric("burndown_data")
    /\ result.status = "ok"
    /\ Len(result.value) = 3
    /\ Completed(Partition)[1]["Completed_Date"].v > Completed(Partition)[2]["Completed_Date"].v
    /\ Greater(result.value[1].remaining_points, result.value[3].remaining_points)
    /\ result.value[1].date < result.value[3].date

\* C23: in every burndown entry remaining_points + completed_points is the
\* sprint's total story points, and the last entry's remaining_points is the
\* total minus velocity(sprint) (held in hundredths), also when a Done ticket
\* has no story points or no completion date.
C23_BurndownAccounts ==
    (IsMetric("burndown_data") /\ result.status = "ok") =>
        LET series == result.value
            total == SumCells(Partition.rows, "Story_Points")
        IN  /\ \A i \in 1..Len(series) :
                  /\ IsNum(series[i].remaining_points)
                  /\ IsNum(series[i].completed_points)
                  /\ series[i].remaining_points.v + series[i].completed_points.v = total
            /\ series # <<>> =>
                  100 * (total - series[Len(series)].remaining_points.v)
                      = PointScale * MetricOfSprint("velocity", Params["sprint_id"]).value

\* the cycle times (units of 1/256 day) of the tickets that match the status
\* and type asked for, a ticket without cycle time left out
CycleTimes ==
    LET status == Get(Params, "status", "Done")
        ticket_type == Get(Params, "ticket_type", None)
        tickets == SelectSeq(df.rows, LAMBDA row :
                                 /\ status \in {None, "", row["Status"]}
                                 /\ ticket_type \in {None, "", row["Type"]}
                                 /\ "Cycle_Time_Days" \in df.columns
                                 /\ row["Cycle_Time_Days"] # NaN)
    IN  [i \in 1..Len(tickets) |-> tickets[i]["Cycle_Time_Days"].v]

RECURSIVE Sum(_)
Sum(values) == IF values = <<>> THEN 0 ELSE Head(values) + Sum(Tail(values))

\* C24: cycle_time_avg does not raise and returns 0 when no ticket matches the
\* status and type or every matching ticket lacks a cycle time, and otherwise
\* the mean of the cycle times of the matching tickets (two decimals, held in
\* hundredths).
C24_CycleTimeAverage ==
    IsMetric("cycle_time_avg") =>
        result = Ok(IF CycleTimes = <<>> THEN 0
                    ELSE RoundHalfEven(100 * Sum(CycleTimes), PointScale * Len(CycleTimes)))

\* a mean over two of three tickets: one matching ticket lacks a cycle time
\* and one ticket with a cycle time does not match
C24_Witness ==
    /\ IsMetric("cycle_time_avg")
    /\ Len(CycleTimes) = 1
    /\ Len0(df) = 3
    /\ CountCells(df.rows, "Cycle_Time_Days") = 2
    /\ \E i \in 1..3 : /\ df.rows[i]["Status"] = Get(Params, "status", "Done")
                       /\ df.rows[i]["Cycle_Time_Days"] = NaN
    /\ result.status = "ok"
    /\ result.value > 0

\* the non-null values of a column of the table
ValuesOf(col) ==
    LET cells == SelectSeq(df.rows, LAMBDA row : IsNum(row[col]))
    IN  [i \in 1..Len(cells) |-> cells[i][col].v]

IsSummary == call.query_type = "statistical_summary"

Statistics == {"mean", "median", "std", "min", "max", "q25", "q75"}

\* C25: statistical_summary returns a number for every statistic of every
\* selected column: count is the number of non-null values, a column without
\* values has every statistic 0, and a column with one value has std 0 and
\* that value as its mean, median, min, max and quartiles.
C25_SummaryHasNoNaN ==
    IsSummary =>
        /\ result.status = "ok"
        /\ \A col \in DOMAIN result.value :
              LET stats == result.value[col]
                  values == ValuesOf(col)
              IN  /\ stats.count = Len(values)
                  /\ \A s \in Statistics : stats[s] \in Int
                  /\ values = <<>> => \A s \in Statistics : stats[s] = 0
                  /\ Len(values) = 1 =>
                        /\ stats.std = 0
                        /\ \A s \in Statistics \ {"std"} :
                              stats[s] = RoundHalfEven(100 * values[1], PointScale)

\* a summary of a column with one value and one null
C25_Witness ==
    /\ IsSummary
    /\ result.status = "ok"
    /\ "Story_Points" \in DOMAIN result.value
    /\ Len0(df) = 2
    /\ Len(ValuesOf("Story_Points")) = 1
    /\ result.value["Story_Points"].mean > 0

IsSprintSummary == call.query_type = "get_sprint_summary"

\* the tickets of the sprint last summarised
Summarised ==
    LET sprint_id == call.kwargs["sprint_id"]
    IN  IF Truthy(sprint_id)
        THEN Where(analyzer.df, {r \in Rows(analyzer.df) : r["Sprint_ID"] = sprint_id})
        ELSE analyzer.df

\* the sprint has a capacity to measure the logged hours against: a sprint is
\* given and has tickets, and the capacity of its first ticket is above zero
HasCapacity ==
    /\ Truthy(call.kwargs["sprint_id"])
    /\ Len0(Summarised) > 0
    /\ {"Team_Capacity_Hours", "Dev_Time_Hours"} \subseteq Summarised.columns
    /\ IsNum(Summarised.rows[1]["Team_Capacity_Hours"])
    /\ Summarised.rows[1]["Team_Capacity_Hours"].v > 0

\* C26: get_sprint_summary reports capacity_utilization_percent as null only
\* when no sprint is given, the sprint has no rows or the capacity is absent,
\* null or zero; with a capacity it reports the logged hours as a percentage
\* of it, 0 when no hours are logged; the record holds no NaN.
C26_UtilizationReported ==
    (IsSprintSummary /\ result.status = "ok") =>
        /\ result.value.capacity_utilization_percent = NoneCell <=> ~HasCapacity
        /\ HasCapacity =>
              result.value.capacity_utilization_percent =
                  Num(Round1(100 * (SumCells(Summarised.rows, "Dev_Time_Hours")
                                    + SumCells(Summarised.rows, "QA_Time_Hours")),
                             Summarised.rows[1]["Team_Capacity_Hours"].v))
        /\ result.value.team_capacity_hours # NaN
        /\ \A i \in 1..Len(result.value.team_members) :
              result.value.team_members[i] # NullStr

IsTrend == call.query_type = "trend_analysis"

\* the sum of the values of the data points of a trend
RECURSIVE SumOfValues(_, _)
SumOfValues(points, names) ==
    IF names = {} THEN 0
    ELSE LET name == CHOOSE n \in names : TRUE
         IN  points[name]["value"] + SumOfValues(points, names \ {name})

\* C27: trend_analysis returns one row for each distinct (non-null) value of
\* the group_by column, and the velocities of the sprints sum to the velocity
\* of the whole table: the points of every Done ticket are in one group.
C27_TrendCoversTable ==
    (IsTrend /\ Get(call.kwargs, "group_by", "Sprint_ID") \in df.columns) =>
        /\ result.status = "ok"
        /\ DOMAIN result.value =
              {row[Get(call.kwargs, "group_by", "Sprint_ID")] : row \in Rows(df)} \ {NullStr}
        /\ (call.kwargs["metric"] = "velocity" /\ "group_by" \notin DOMAIN call.kwargs) =>
              SumOfValues(result.value, DOMAIN result.value)
                  = ColumnSum(DoneRows(df), "Story_Points")

\* C28: in the record of team_productivity, total_team_points is the velocity
\* of the partition, the total_tickets of the members sum to the number of
\* rows of the partition, and every listed member has at least one ticket.
C28_TeamCoversPartition ==
    IsMetric("team_productivity") =>
        /\ result.status = "ok"
        /\ result.value.total_team_points = ColumnSum(DoneRows(Partition), "Story_Points")
        /\ SumField(result.value.team_members, "total_tickets") = Len0(Partition)
        /\ \A i \in 1..Len(result.value.team_members) :
              result.value.team_members[i].total_tickets >= 1

\* C29: whatever queries the DashboardAnalyzer has answered, the table it
\* holds has the columns and the values it had right after construction.
C29_DashboardTableKept ==
    pc = "ready" => df = DashboardAnalyzer(src).self

\* the LLM call of the question last asked failed, and _direct_query answered
DirectlyAnswered ==
    /\ IsQuery
    /\ call.kwargs.question.is_str
    /\ "llm" \in call.kwargs.env.raises
    /\ _get_relevant_data(call.kwargs.question, call.kwargs.env).ret.status = "ok"

\* C30: _direct_query returns an answer that is not empty for every question,
\* whichever chart and data keywords it contains.
C30_DirectAnswerNotEmpty ==
    DirectlyAnswered =>
        /\ result = _direct_query(call.kwargs.question, call.kwargs.env).ret
        /\ result.status = "ok"
        /\ result.value.answer # <<>>

=============================================================================
